---- MODULE Spec2Model ----
(***************************************************************************)
(* Staggered race of src/src/019_advanced_scheduling_and_executors.py:     *)
(* run_staggered_race and its helper _fallback_staggered_race, run on a    *)
(* single asyncio event loop.  The race coroutine and the candidate tasks  *)
(* interleave only at the race's await points (the stagger sleep, the      *)
(* asyncio.wait and the two asyncio.gather calls); everything the race     *)
(* does between two awaits is one atomic action.                           *)
(***************************************************************************)
EXTENDS Integers, Sequences, FiniteSets, TLC

(* ---------------------------------------------------------------------- *)
(* Bounds of the model                                                     *)
(* ---------------------------------------------------------------------- *)

\* Largest number of candidate factories handed to one race.
MaxN == 3

(* ---------------------------------------------------------------------- *)
(* Inputs                                                                  *)
(* ---------------------------------------------------------------------- *)

\* What the coroutine made by a factory does when left alone: return its
\* value, raise an Exception, never complete, or end by CancelledError that
\* the race did not ask for (simulate_service covers "ok" and "fail").
Plans == {"ok", "fail", "hang", "selfcancel"}

\* `interval: float = 0.001`: the interval of a call that gives none, in ms.
DefaultInterval == 1

\* The interval argument: zero, or a positive delay (the default when the
\* caller does not give one).
Intervals == {0, DefaultInterval}

\* asyncio.staggered_race does not exist in asyncio, so the module constant
\* is False and run_staggered_race always takes the fallback.
HAS_STAGGERED_RACE == FALSE

VARIABLES
    factories,      \* factories[i]: plan of the coroutine factory i creates
    cooperative,    \* cooperative[i]: coroutine i unwinds on CancelledError
    interval,       \* the interval argument
    pc,             \* position of the race coroutine
    tasks,          \* the list tasks: indices of the created tasks, in order
    status,         \* status[i]: state of candidate i's task
    must_cancel,    \* must_cancel[i]: a cancel() of task i awaits delivery
    cancel_calls,   \* cancel_calls[i]: effective cancel() calls of the race
                    \* on task i
    pending,        \* the local set pending
    done,           \* the local set done of the last asyncio.wait
    result,         \* the local result (value adopted from a task)
    exc,            \* exception in flight in, or raised by, the race
    adopted,        \* candidates whose task.result() was taken as result
    failures,       \* candidates whose task.result() raised an Exception
    firstSuccess,   \* {} or {i}: the candidate that succeeded first in time
    launchedAtFirstSuccess, \* Len(tasks) when that first success happened
    slept           \* time spent so far in the stagger sleeps (in ms)

\* The variables of the race, and the variables other demonstrations own.
raceVars == <<factories, cooperative, interval, pc, tasks, status,
              must_cancel, cancel_calls, pending, done, result, exc, adopted,
              failures, firstSuccess, launchedAtFirstSuccess, slept>>

\* The caller of the race: whoever awaits run_staggered_race in a task and
\* may cancel that task (an enclosing deadline).
VARIABLES
    race_cancelled  \* cancel() was called on the task running the race

callerVars == <<race_cancelled>>

\* SharedResource and its two workers (008_locks.py, 006_asyncio_lock.py).
VARIABLES
    variant,        \* which file: "read_sleep_write" (006) or
                    \* "sleep_read_write" (008)
    increments,     \* the argument increments of both workers
    value,          \* resource.value
    locked,         \* resource.lock is held
    waiters,        \* resource.lock's queue of waiting workers
    woken,          \* waiting workers whose wait a release() has ended
    wpc,            \* wpc[w]: position of worker w
    left,           \* left[w]: passes of `for _ in range(increments)` to go
    temp,           \* temp[w]: worker w's local temp
    lmain,          \* position of main
    printed         \* what main printed

lockVars == <<variant, increments, value, locked, waiters, woken, wpc, left,
              temp, lmain, printed>>

\* limited_worker under a Semaphore (009_semaphores.py,
\* 007_asyncio_semaphore.py, 018_asyncio_semaphore_concurrent_access.py).
VARIABLES
    sem_value,      \* the semaphore's counter
    sem_waiters,    \* the semaphore's queue of waiting workers
    sem_woken,      \* waiting workers whose wait a release() has ended
    spc,            \* spc[w]: position of limited_worker w
    output          \* the lines printed so far

semVars == <<sem_value, sem_waiters, sem_woken, spc, output>>

\* The event loop running one of the lessons' programs: the tasks it holds
\* and what they printed.
VARIABLES
    demo,           \* the program asyncio.run() was given, or "idle"
    ready,          \* the loop's FIFO of callbacks to run (task steps and
                    \* done callbacks), the next one first
    sleeping,       \* tasks in an asyncio.sleep() whose timer is pending
    lpc,            \* lpc[t]: position of the coroutine of task t
    joining,        \* children the parent's gather / TaskGroup waits for
    to_cancel,      \* tasks with a cancel() to deliver at their next step
    lines           \* the lines printed so far

loopVars == <<demo, ready, sleeping, lpc, joining, to_cancel, lines>>

\* asyncio.Barrier (012_barriers.py, 011_asyncio_barrier.py).
VARIABLES
    b_count,        \* barrier._count: workers inside wait()
    b_state,        \* barrier._state: "filling" or "draining"
    b_waiters       \* workers blocked in barrier._wait(), in arrival order

barrierVars == <<b_count, b_state, b_waiters>>

\* asyncio.Queue with producers and consumers (008_queue.py,
\* 008_asyncio_queue.py).
VARIABLES
    q_items,        \* queue._queue: the items, the oldest first
    q_getters,      \* queue._getters: consumers blocked in get()
    q_unfinished,   \* queue._unfinished_tasks
    p_i,            \* p_i[p]: producer p's loop variable i
    c_item,         \* c_item[c]: consumer c's local item
    c_count         \* c_count[c]: passes of `for _ in range(n)` done

queueVars == <<q_items, q_getters, q_unfinished, p_i, c_item, c_count>>

\* Everything the event loop demonstrations own.
\* WorkerState, HeartbeatStats and BlockingDetector (006_blocking_calls.py).
VARIABLES
    worker_running,             \* state.worker_running
    stop,                       \* state.stop
    ticks_total,                \* stats.ticks_total
    ticks_while_worker_running, \* stats.ticks_while_worker_running
    thread_running,             \* the thread of asyncio.to_thread is at work
    canary_ran,                 \* detector.canary_ran
    body_yields,                \* awaits of sleep(0) in the `async with` body
    yields_left                 \* how many of them are still to come

blockingVars == <<worker_running, stop, ticks_total,
                  ticks_while_worker_running, thread_running, canary_ran,
                  body_yields, yields_left>>

\* asyncio.TaskGroup (006_task_groups.py).
VARIABLES
    tg_tasks,       \* group._tasks: children whose done callback has not run
    tg_errors,      \* group._errors
    tg_aborting,    \* group._aborting
    tg_parent_cancel_requested, \* group._parent_cancel_requested
    tg_fut,         \* group._on_completed_fut: "none", "pending", "set" or
                    \* "cancelled"
    tg_exc          \* what `async with` raised in the parent

groupVars == <<tg_tasks, tg_errors, tg_aborting, tg_parent_cancel_requested,
               tg_fut, tg_exc>>

\* asyncio.Event (010_event.py, 017_asyncio_event_signaling.py,
\* 009_asyncio_event.py).
VARIABLES
    e_value,        \* event._value
    e_waiters       \* event._waiters: tasks blocked in event.wait()

eventVars == <<e_value, e_waiters>>

\* The objects the programs share among their tasks.
objectVars == <<barrierVars, queueVars, blockingVars, groupVars, eventVars>>

demoVars == <<loopVars, objectVars>>

notRace == <<callerVars, lockVars, semVars, demoVars>>

notLock == <<raceVars, callerVars, semVars, demoVars>>

notSem == <<raceVars, callerVars, lockVars, demoVars>>

notDemo == <<raceVars, callerVars, lockVars, semVars>>

\* What the barrier programs leave alone, and so on for each program.
notBarrier == <<notDemo, queueVars, blockingVars, groupVars, eventVars>>

notQueue == <<notDemo, barrierVars, blockingVars, groupVars, eventVars>>

notBlocking == <<notDemo, barrierVars, queueVars, groupVars, eventVars>>

notGroup == <<notDemo, barrierVars, queueVars, blockingVars, eventVars>>

notEvent == <<notDemo, barrierVars, queueVars, blockingVars, groupVars>>

vars == <<raceVars, callerVars, lockVars, semVars, demoVars>>

\* len(factories)
N == Cardinality(DOMAIN factories)

Indices == 0 .. (N - 1)

\* The value the coroutine of candidate i returns (simulate_service returns
\* its own name, distinct per candidate).
Value(i) == <<"value", i>>

\* The exception the coroutine of candidate i raises.
Error(i) == <<"error", i>>

NoResult == <<>>

NoExc == [type |-> "None", args |-> <<>>]

\* ValueError("staggered race requires at least one candidate")
ValueError == [type |-> "ValueError",
               args |-> <<"staggered race requires at least one candidate">>]

\* RuntimeError("All staggered tasks failed")
RuntimeError == [type |-> "RuntimeError",
                 args |-> <<"All staggered tasks failed">>]

\* The CancelledError task.result() raises for a cancelled task.
CancelledError == [type |-> "CancelledError", args |-> <<>>]

\* task.done()
IsDone(t) == status[t] \in {"succeeded", "failed", "cancelled"}

\* gather(...) called without being awaited.
AllDoneNotAwaited(S) == TRUE

\* Every task of S is done: what awaiting gather(*S, return_exceptions=True)
\* waits for.
AllDone(S) == \A t \in S : IsDone(t)

\* set(tasks)
TaskSet == {tasks[k] : k \in 1 .. Len(tasks)}

\* The emptiness check left out.
NotFactoryListUnchecked == FALSE

\* `if not factory_list`
NotFactoryList == N = 0

\* The loop walking the factories from the last one down.
NextIndexReversed == N - 1 - Len(tasks)

\* `for index, factory in enumerate(factories)`: the index of the next pass.
NextIndex == Len(tasks)

\* `asyncio.sleep(interval or 0.001)`: a zero interval replaced by the default.
SleepTimeDefaulted(iv) == IF iv = 0 THEN DefaultInterval ELSE iv

\* `await asyncio.sleep(interval)`: the time the sleep takes.
SleepTime(iv) == iv

\* gather without return_exceptions=True: the first child that did not
\* return a value makes the await raise.
GatherExcRaising(S) ==
    IF \E t \in S : status[t] = "cancelled" THEN CancelledError
    ELSE IF \E t \in S : status[t] = "failed"
         THEN [type |-> "Exception",
               args |-> <<Error(CHOOSE t \in S : status[t] = "failed")>>]
         ELSE NoExc

\* What awaiting gather(*S, return_exceptions=True) raises: nothing, the
\* children's exceptions are returned as values and dropped.
GatherExc(S) == NoExc

\* The launch loop left as soon as a candidate has succeeded.
SleepAfterUnlessWon(index) == index # N - 1 /\ firstSuccess = {}

\* `if index != len(factories) - 1`: a stagger sleep follows the start.
SleepAfter(index) == index # N - 1

\* `if pending` in place of `while pending`: a single pass.
WhilePendingOnce(p) == FALSE

\* `while pending`
WhilePending(p) == p # {}

\* The cancel() calls left out.
CancelAllForgotten(mc, S) == mc

\* cancel() taking effect on done tasks too.
CancelAllEvenDone(mc, S) == [i \in DOMAIN mc |-> mc[i] \/ i \in S]

\* task.cancel() for every task of S; cancel() of a done task does nothing.
CancelAll(mc, S) ==
    [i \in DOMAIN mc |-> mc[i] \/ (i \in S /\ ~IsDone(i))]

\* The number of effective cancel() calls after cancelling the tasks of S.
CountCancels(cc, S) ==
    [i \in DOMAIN cc |-> IF i \in S /\ ~IsDone(i) THEN cc[i] + 1 ELSE cc[i]]

\* The second value asyncio.wait returns thrown away: pending stays as it
\* was.
StillPendingKept(p, d) == p

\* `done, pending = await asyncio.wait(pending, ...)`: the new pending is the
\* tasks of the old one that are not done.
StillPending(p, d) == p \ d

\* All orders in which `for task in done` can iterate the set done.
RECURSIVE Orders(_)
Orders(S) ==
    IF S = {} THEN {<<>>}
    ELSE UNION {{<<t>> \o o : o \in Orders(S \ {t})} : t \in S}

(* ---------------------------------------------------------------------- *)
(* The body of `for task in done`                                          *)
(* ---------------------------------------------------------------------- *)

\* acc: [adopted, failures, result, how, exc], how being "exhausted" (the
\* loop ran out of tasks), "return", or "raise" (exc leaves the loop).
RECURSIVE ForTaskInDone(_, _)

\* The handler missing: the candidate's Exception leaves the loop.
OnExceptionUncaught(t, rest, acc) ==
    [acc EXCEPT !.how = "raise",
                !.exc = [type |-> "Exception", args |-> <<Error(t)>>]]

\* The handler without its `continue`: the failed task falls through to the
\* winner phase.
OnExceptionFallThrough(t, rest, acc) ==
    [acc EXCEPT !.failures = @ \cup {t}, !.adopted = @ \cup {t},
                !.how = "return"]

\* `except Exception: continue`
OnException(t, rest, acc) ==
    ForTaskInDone(rest, [acc EXCEPT !.failures = @ \cup {t}])

\* The winner phase without its `return`: the loop goes on over done.
OnResultNoReturn(t, rest, acc) ==
    ForTaskInDone(rest, [acc EXCEPT !.adopted = @ \cup {t},
                                    !.result = Value(t), !.how = "return"])

\* `result = task.result()` returned a value: the winner phase follows and
\* ends in `return result`, so the rest of done is not looked at.
OnResult(t, rest, acc) ==
    [acc EXCEPT !.adopted = @ \cup {t}, !.result = Value(t), !.how = "return"]

\* task.result() of a cancelled task raises CancelledError, which is not an
\* Exception: it leaves the loop and the try block.
OnCancelled(t, rest, acc) ==
    [acc EXCEPT !.how = "raise", !.exc = CancelledError]

ForTaskInDone(order, acc) ==
    IF order = <<>> THEN acc
    ELSE LET t == Head(order)
             rest == Tail(order)
         IN CASE status[t] = "failed" -> OnException(t, rest, acc)
              [] status[t] = "succeeded" -> OnResult(t, rest, acc)
              [] OTHER -> OnCancelled(t, rest, acc)

(* ---------------------------------------------------------------------- *)
(* Initial state                                                           *)
(* ---------------------------------------------------------------------- *)

\* No race call under way.
RaceIdle ==
    /\ factories = <<>>
    /\ cooperative = <<>>
    /\ interval = 0
    /\ pc = "start"
    /\ tasks = <<>>
    /\ status = <<>>
    /\ must_cancel = <<>>
    /\ cancel_calls = <<>>
    /\ pending = {}
    /\ done = {}
    /\ result = NoResult
    /\ exc = NoExc
    /\ adopted = {}
    /\ failures = {}
    /\ firstSuccess = {}
    /\ launchedAtFirstSuccess = 0
    /\ slept = 0
    /\ race_cancelled = FALSE

\* The lock demonstration not run.
LockIdle ==
    /\ variant = "read_sleep_write"
    /\ increments = 0
    /\ value = 0
    /\ locked = FALSE
    /\ waiters = <<>>
    /\ woken = {}
    /\ wpc = <<>>
    /\ left = <<>>
    /\ temp = <<>>
    /\ lmain = "idle"
    /\ printed = <<>>

\* The semaphore demonstration not run.
SemIdle ==
    /\ sem_value = 0
    /\ sem_waiters = <<>>
    /\ sem_woken = {}
    /\ spc = <<>>
    /\ output = <<>>

\* No program of the event loop demonstrations is run.
DemoIdle ==
    /\ demo = "idle"
    /\ ready = <<>>
    /\ sleeping = {}
    /\ lpc = <<>>
    /\ joining = {}
    /\ to_cancel = {}
    /\ lines = <<>>
    /\ b_count = 0
    /\ b_state = "filling"
    /\ b_waiters = <<>>
    /\ q_items = <<>>
    /\ q_getters = <<>>
    /\ q_unfinished = 0
    /\ p_i = <<>>
    /\ c_item = <<>>
    /\ c_count = <<>>
    /\ worker_running = FALSE
    /\ stop = FALSE
    /\ ticks_total = 0
    /\ ticks_while_worker_running = 0
    /\ thread_running = FALSE
    /\ canary_ran = FALSE
    /\ body_yields = 0
    /\ yields_left = 0
    /\ tg_tasks = {}
    /\ tg_errors = <<>>
    /\ tg_aborting = FALSE
    /\ tg_parent_cancel_requested = FALSE
    /\ tg_fut = "none"
    /\ tg_exc = NoExc
    /\ e_value = FALSE
    /\ e_waiters = <<>>

Init ==
    /\ \E n \in 0 .. MaxN :
          /\ factories \in [0 .. (n - 1) -> Plans]
          /\ cooperative \in [0 .. (n - 1) -> BOOLEAN]
          \* a coroutine that ends by CancelledError anyway ends the same
          \* way whether or not it catches the one thrown into it
          /\ \A i \in 0 .. (n - 1) :
                factories[i] = "selfcancel" => cooperative[i]
          /\ status = [i \in 0 .. (n - 1) |-> "unstarted"]
          /\ must_cancel = [i \in 0 .. (n - 1) |-> FALSE]
          /\ cancel_calls = [i \in 0 .. (n - 1) |-> 0]
    /\ interval \in Intervals
    /\ pc = "start"
    /\ tasks = <<>>
    /\ pending = {}
    /\ done = {}
    /\ result = NoResult
    /\ exc = NoExc
    /\ adopted = {}
    /\ failures = {}
    /\ firstSuccess = {}
    /\ launchedAtFirstSuccess = 0
    /\ slept = 0
    /\ race_cancelled = FALSE
    /\ LockIdle
    /\ SemIdle
    /\ DemoIdle

(* ---------------------------------------------------------------------- *)
(* The race coroutine                                                      *)
(* ---------------------------------------------------------------------- *)

\* The finally block up to its await: cancel every task of the list ts that
\* is not done, then wait in gather(*tasks).  e is the exception in flight
\* (NoExc on the return path).
Finally(e, ts) ==
    /\ must_cancel' = CancelAll(must_cancel, {ts[k] : k \in 1 .. Len(ts)})
    /\ cancel_calls' =
          CountCancels(cancel_calls, {ts[k] : k \in 1 .. Len(ts)})
    /\ exc' = e
    /\ pc' = "gather_tasks"

\* After the launch loop: pending = set(tasks), then the first pass of
\* `while pending` up to its await (ts is the final list tasks).
EnterTry(ts) ==
    LET p == {ts[k] : k \in 1 .. Len(ts)}
    IN /\ pending' = p
       /\ IF WhilePending(p)
          THEN /\ pc' = "wait"
               /\ UNCHANGED <<must_cancel, cancel_calls, exc>>
          ELSE Finally(RuntimeError, ts)

\* The task created but not appended to tasks.
LaunchUnregistered(index) ==
    /\ tasks' = tasks
    /\ status' = [status EXCEPT ![index] = "running"]
    /\ IF SleepAfter(index)
       THEN /\ pc' = "sleep"
            /\ UNCHANGED <<pending, must_cancel, cancel_calls, exc>>
       ELSE EnterTry(tasks)

\* One pass of the launch loop for index: create the task, then either
\* sleep or leave the loop.
Launch(index) ==
    /\ tasks' = Append(tasks, index)
    /\ status' = [status EXCEPT ![index] = "running"]
    /\ IF SleepAfter(index)
       THEN /\ pc' = "sleep"
            /\ UNCHANGED <<pending, must_cancel, cancel_calls, exc>>
       ELSE EnterTry(Append(tasks, index))

\* run_staggered_race is called with an empty list: ValueError.
CallEmpty ==
    /\ pc = "start"
    /\ NotFactoryList
    /\ exc' = ValueError
    /\ pc' = "raised"
    /\ UNCHANGED <<notRace, slept>>
    /\ UNCHANGED <<factories, cooperative, interval, tasks, status,
                   must_cancel, cancel_calls, pending, done, result, adopted,
                   failures, firstSuccess, launchedAtFirstSuccess>>

\* run_staggered_race is called with candidates: the fallback runs up to its
\* first await.
Call ==
    /\ pc = "start"
    /\ ~NotFactoryList
    /\ ~HAS_STAGGERED_RACE
    /\ IF N = 0
       THEN /\ EnterTry(tasks)
            /\ UNCHANGED <<tasks, status>>
       ELSE Launch(NextIndex)
    /\ UNCHANGED <<notRace, slept>>
    /\ UNCHANGED <<factories, cooperative, interval, done, result, adopted,
                   failures, firstSuccess, launchedAtFirstSuccess>>

\* asyncio.sleep(interval) is over: the next pass of the launch loop.
LaunchNext ==
    /\ pc = "sleep"
    /\ slept' = slept + SleepTime(interval)
    /\ Launch(NextIndex)
    /\ UNCHANGED notRace
    /\ UNCHANGED <<factories, cooperative, interval, done, result, adopted,
                   failures, firstSuccess, launchedAtFirstSuccess>>

\* asyncio.wait(pending, return_when=FIRST_COMPLETED) returns: done is every
\* pending task that is done by now, and the for loop over done runs up to
\* the next await.
WaitWake ==
    /\ pc = "wait"
    /\ \E t \in pending : IsDone(t)
    /\ LET d == {t \in pending : IsDone(t)}
           p == StillPending(pending, d)
       IN /\ done' = d
          /\ pending' = p
          /\ \E order \in Orders(d) :
                LET r == ForTaskInDone(order,
                            [adopted |-> adopted, failures |-> failures,
                             result |-> result, how |-> "exhausted",
                             exc |-> NoExc])
                IN /\ adopted' = r.adopted
                   /\ failures' = r.failures
                   /\ result' = r.result
                   /\ CASE r.how = "return" ->
                             /\ must_cancel' = CancelAll(must_cancel, p)
                             /\ cancel_calls' = CountCancels(cancel_calls, p)
                             /\ exc' = NoExc
                             /\ pc' = "gather_pending"
                        [] r.how = "raise" -> Finally(r.exc, tasks)
                        [] OTHER ->
                             IF WhilePending(p)
                             THEN /\ pc' = "wait"
                                  /\ UNCHANGED <<must_cancel, cancel_calls,
                                                 exc>>
                             ELSE Finally(RuntimeError, tasks)
    /\ UNCHANGED <<notRace, slept>>
    /\ UNCHANGED <<factories, cooperative, interval, tasks, status,
                   firstSuccess, launchedAtFirstSuccess>>

\* gather(*pending, return_exceptions=True) of the winner phase is over:
\* `return result` enters the finally block.
GatherPending ==
    /\ pc = "gather_pending"
    /\ AllDone(pending)
    /\ Finally(GatherExc(pending), tasks)
    /\ UNCHANGED <<notRace, slept>>
    /\ UNCHANGED <<factories, cooperative, interval, tasks, status, pending,
                   done, result, adopted, failures, firstSuccess,
                   launchedAtFirstSuccess>>

\* gather(*tasks, return_exceptions=True) of the finally block is over: the
\* race returns result or raises the exception in flight.
GatherTasks ==
    /\ pc = "gather_tasks"
    /\ AllDone(TaskSet)
    /\ exc' = IF GatherExc(TaskSet) # NoExc THEN GatherExc(TaskSet) ELSE exc
    /\ pc' = IF exc' = NoExc THEN "returned" ELSE "raised"
    /\ UNCHANGED <<notRace, slept>>
    /\ UNCHANGED <<factories, cooperative, interval, tasks, status,
                   must_cancel, cancel_calls, pending, done, result,
                   adopted, failures, firstSuccess, launchedAtFirstSuccess>>

(* ---------------------------------------------------------------------- *)
(* The candidate tasks                                                     *)
(* ---------------------------------------------------------------------- *)

\* The event loop runs tasks only while the race coroutine is suspended.
Suspended == pc \in {"sleep", "wait", "gather_pending", "gather_tasks"}

CanStep(i) == Suspended /\ status[i] = "running"

\* The coroutine of candidate i returns its value.
TaskSucceed(i) ==
    /\ CanStep(i)
    /\ ~must_cancel[i]
    /\ factories[i] = "ok"
    /\ status' = [status EXCEPT ![i] = "succeeded"]
    /\ firstSuccess' = IF firstSuccess = {} THEN {i} ELSE firstSuccess
    /\ launchedAtFirstSuccess' =
          IF firstSuccess = {} THEN Len(tasks) ELSE launchedAtFirstSuccess
    /\ UNCHANGED <<notRace, slept>>
    /\ UNCHANGED <<factories, cooperative, interval, pc, tasks, must_cancel,
                   cancel_calls, pending, done, result, exc, adopted,
                   failures>>

\* The coroutine of candidate i raises its Exception.
TaskFail(i) ==
    /\ CanStep(i)
    /\ ~must_cancel[i]
    /\ factories[i] = "fail"
    /\ status' = [status EXCEPT ![i] = "failed"]
    /\ UNCHANGED <<notRace, slept>>
    /\ UNCHANGED <<factories, cooperative, interval, pc, tasks, must_cancel,
                   cancel_calls, pending, done, result, exc, adopted,
                   failures, firstSuccess, launchedAtFirstSuccess>>

\* Task i ends cancelled although the race never called cancel() on it.
TaskSelfCancel(i) ==
    /\ CanStep(i)
    /\ ~must_cancel[i]
    /\ factories[i] = "selfcancel"
    /\ status' = [status EXCEPT ![i] = "cancelled"]
    /\ UNCHANGED <<notRace, slept>>
    /\ UNCHANGED <<factories, cooperative, interval, pc, tasks, must_cancel,
                   cancel_calls, pending, done, result, exc, adopted,
                   failures, firstSuccess, launchedAtFirstSuccess>>

\* CancelledError is thrown into coroutine i, which unwinds: the task ends
\* cancelled.
TaskCancelled(i) ==
    /\ CanStep(i)
    /\ must_cancel[i]
    /\ cooperative[i]
    /\ status' = [status EXCEPT ![i] = "cancelled"]
    /\ must_cancel' = [must_cancel EXCEPT ![i] = FALSE]
    /\ UNCHANGED <<notRace, slept>>
    /\ UNCHANGED <<factories, cooperative, interval, pc, tasks, cancel_calls,
                   pending, done, result, exc, adopted, failures,
                   firstSuccess, launchedAtFirstSuccess>>

\* CancelledError is thrown into coroutine i, which catches it and goes on.
TaskSwallowCancel(i) ==
    /\ CanStep(i)
    /\ must_cancel[i]
    /\ ~cooperative[i]
    /\ must_cancel' = [must_cancel EXCEPT ![i] = FALSE]
    /\ UNCHANGED <<notRace, slept>>
    /\ UNCHANGED <<factories, cooperative, interval, pc, tasks, status,
                   cancel_calls, pending, done, result, exc, adopted,
                   failures, firstSuccess, launchedAtFirstSuccess>>

TaskStep ==
    \E i \in Indices :
        \/ TaskSucceed(i)
        \/ TaskFail(i)
        \/ TaskSelfCancel(i)
        \/ TaskCancelled(i)
        \/ TaskSwallowCancel(i)

Next ==
    \/ CallEmpty
    \/ Call
    \/ LaunchNext
    \/ WaitWake
    \/ GatherPending
    \/ GatherTasks
    \/ TaskStep

Spec == Init /\ [][Next]_vars

\* The race call is over.
Concluded == pc \in {"returned", "raised"}

TypeOK ==
    /\ N \in 0 .. MaxN
    /\ pc \in {"start", "sleep", "wait", "gather_pending", "gather_tasks",
               "returned", "raised"}
    /\ pending \subseteq Indices
    /\ done \subseteq Indices
    /\ adopted \subseteq Indices
    /\ failures \subseteq Indices
    /\ Len(tasks) <= N

(* ---------------------------------------------------------------------- *)
(* Properties of the race                                                  *)
(* ---------------------------------------------------------------------- *)

\* Candidate i is planned to succeed and every other candidate to fail.
ExactlyOneOk(i) ==
    /\ i \in Indices
    /\ factories[i] = "ok"
    /\ \A j \in Indices \ {i} : factories[j] = "fail"

\* Every candidate is planned to fail.
AllFail == N >= 1 /\ \A i \in Indices : factories[i] = "fail"

\* The per-candidate errors an exception carries: the candidates i whose
\* own error is among the exception's args.
CarriedErrors(e) ==
    {i \in Indices : \E k \in 1 .. Len(e.args) :
        /\ Len(e.args[k]) = 2
        /\ e.args[k][1] = "error"
        /\ e.args[k][2] = i}

\* C1: when exactly one candidate i succeeds and every other candidate
\* fails, a race that concludes returns candidate i's value, whatever the
\* order of launches and completions.
C1_OnlySuccessWins ==
    \A i \in Indices :
        (ExactlyOneOk(i) /\ Concluded) =>
            (pc = "returned" /\ result = Value(i))

C1_Witness ==
    /\ N = 3
    /\ ExactlyOneOk(1)
    /\ pc = "returned"
    /\ result = Value(1)
    /\ status[0] = "failed"
    /\ status[2] = "cancelled"

C3_EmptyRejected ==
    (N = 0 /\ pc # "start") =>
        /\ pc = "raised"
        /\ exc = ValueError
        /\ tasks = <<>>
        /\ pending = {}

C3_Witness == N = 0 /\ pc = "raised" /\ exc = ValueError

\* C4: when the race has returned a value or raised the all-failed error,
\* no candidate's task is still running: every loser was cancelled and
\* awaited.
C4_NoRunningAfter ==
    (Concluded /\ exc \in {NoExc, RuntimeError}) =>
        \A i \in Indices : status[i] # "running" /\ ~must_cancel[i]

C4_Witness ==
    /\ pc = "returned"
    /\ \E i \in Indices : status[i] = "cancelled" /\ cancel_calls[i] >= 1
    /\ \E i \in Indices : ~cooperative[i] /\ cancel_calls[i] >= 1

\* Candidate 0 succeeded during the stagger wait that precedes the start of
\* candidate 1, the interval being positive.
WonDuringFirstWait ==
    /\ interval > 0
    /\ N >= 2
    /\ firstSuccess = {0}
    /\ launchedAtFirstSuccess = 1

C6_Scenario ==
    /\ interval > 0
    /\ N = 3
    /\ factories[0] = "fail" /\ factories[1] = "ok" /\ factories[2] = "ok"
    /\ \A i \in Indices : cooperative[i]
    /\ status[0] = "failed"
    /\ pc = "returned"
    /\ 2 \notin done

\* C6: with a positive interval and three candidates, candidate 0 failing
\* first, candidate 1 succeeding next and candidate 2 only able to succeed
\* later, the race returns candidate 1's value and candidate 2 ends
\* cancelled, not succeeded.
C6_SecondWinsThirdCancelled ==
    C6_Scenario => (result = Value(1) /\ status[2] = "cancelled")

C6_Witness ==
    /\ C6_Scenario
    /\ result = Value(1)
    /\ status[2] = "cancelled"
    /\ cancel_calls[2] = 1

\* C7: the value returned is the value of the candidate that succeeded
\* first in time.
C7_FirstSuccessWins ==
    pc = "returned" => (adopted = firstSuccess /\
                        \A i \in firstSuccess : result = Value(i))

\* C8: at most one candidate is ever adopted as the winner, and once one is
\* adopted neither it nor the result changes.
C8_SingleWinner ==
    [][/\ Cardinality(adopted') <= 1
       /\ adopted # {} => (adopted' = adopted /\ result' = result)]_vars

C8_Witness ==
    /\ pc = "returned"
    /\ Cardinality(adopted) = 1
    /\ Cardinality({i \in done : status[i] = "succeeded"}) >= 2

\* C9: the race returns only with a winner adopted, and raises only when
\* every candidate has been seen to fail; nothing else leaves the race.
C9_OnlyTwoOutcomes ==
    Concluded =>
        \/ pc = "returned" /\ adopted # {}
        \/ pc = "raised" /\ failures = Indices

\* C10: the set of candidates seen to fail only grows, and never holds an
\* adopted winner.
C10_FailuresGrowDisjoint ==
    [][/\ failures \subseteq failures'
       /\ failures' \cap adopted' = {}]_vars

C10_Witness ==
    /\ pc = "returned"
    /\ failures # {}
    /\ adopted # {}
    /\ \E i \in done : status[i] = "failed"

\* C11: candidates are started in index order: the list of created tasks is
\* always 0, 1, .., k-1, and candidate k+1 is never started before
\* candidate k.
C11_StartedInIndexOrder ==
    /\ \A k \in 1 .. Len(tasks) : tasks[k] = k - 1
    /\ \A i \in Indices : status[i] # "unstarted" <=> i < Len(tasks)

C11_Witness ==
    /\ N = 3
    /\ tasks = <<0, 1, 2>>
    /\ status[2] = "running"
    /\ status[1] = "failed"
    /\ status[0] = "running"

\* The candidates of the last wake-up batch that had succeeded.
BatchSuccesses == {i \in done : status[i] = "succeeded"}

\* The smallest member of a non-empty set of indices.
Smallest(S) == CHOOSE m \in S : \A x \in S : m <= x

\* C12 (as claimed): when two or more candidates of one wake-up batch have
\* succeeded, the winner is the one of smallest index.
C12_Original ==
    (adopted # {} /\ Cardinality(BatchSuccesses) >= 2) =>
        adopted = {Smallest(BatchSuccesses)}

\* C12 (amended): when two or more candidates of one wake-up batch have
\* succeeded, the winner is one of them, the one the iteration of the set
\* done meets first, and the result is that candidate's value; it need not
\* be the one of smallest index.
C12_Amended ==
    adopted # {} =>
        \E w \in BatchSuccesses : adopted = {w} /\ result = Value(w)

C12_Witness ==
    /\ pc = "returned"
    /\ Cardinality(BatchSuccesses) >= 2
    /\ adopted # {Smallest(BatchSuccesses)}
    /\ \E w \in BatchSuccesses : adopted = {w} /\ result = Value(w)

\* C13: from the moment the all-failed RuntimeError is raised, every
\* candidate has been started and its task has ended by an Exception; none
\* is running or unstarted.
C13_AllFailedOnlyWhenAllFailed ==
    exc = RuntimeError =>
        /\ Len(tasks) = N
        /\ \A i \in Indices : status[i] = "failed"
        /\ pending = {}

C13_Witness ==
    /\ exc = RuntimeError
    /\ pc = "gather_tasks"
    /\ N >= 2

\* The race wakes from asyncio.wait and every task of the batch has failed,
\* while another candidate is still not done.
OnlyFailuresSeen ==
    /\ pc = "wait"
    /\ pending' # pending
    /\ \A t \in pending : IsDone(t) => status[t] = "failed"
    /\ \E t \in pending : ~IsDone(t)

\* C14: a candidate's failure does not end the race while another candidate
\* is running or unstarted: a stagger sleep that ends starts the next
\* candidate whatever has failed, and a wake-up that finds only failures
\* goes back to waiting on the rest, raising and cancelling nothing.
C14_FailureAbsorbed ==
    [][/\ (pc = "sleep" /\ tasks' # tasks) =>
             /\ tasks' = Append(tasks, Len(tasks))
             /\ pc' \in {"sleep", "wait"}
             /\ exc' = NoExc
       /\ OnlyFailuresSeen =>
             /\ pc' = "wait"
             /\ exc' = NoExc
             /\ pending' = {t \in pending : ~IsDone(t)}
             /\ cancel_calls' = cancel_calls]_vars

C14_Witness ==
    /\ pc = "wait"
    /\ N = 3
    /\ failures = {1}
    /\ pending = {0, 2}
    /\ status[0] = "running"
    /\ status[2] = "running"

\* The candidates on which the race has called cancel().
Cancelled == {i \in Indices : cancel_calls[i] >= 1}

\* C15: what a cancelled loser raises while it unwinds is neither raised to
\* the caller nor counted as a failure: a race that has adopted a winner has
\* no exception in flight and, when it concludes, returns the winner's
\* value.
C15_CancellationNoiseDropped ==
    /\ Cancelled \cap failures = {}
    /\ adopted # {} =>
          /\ exc = NoExc
          /\ Concluded =>
                (pc = "returned" /\ \E w \in adopted : result = Value(w))

C15_Witness ==
    /\ pc = "returned"
    /\ \E i \in Cancelled : status[i] = "failed"
    /\ \E i \in Cancelled : status[i] = "cancelled"

\* The starts so far were not delayed by a stagger sleep.
NoStartDelay == slept = 0

\* C16 (as claimed): with a zero interval, and with the interval left to
\* its default, the candidates are started in index order with no delay
\* between successive starts.
C16_Original ==
    (interval = 0 \/ interval = DefaultInterval) =>
        (NoStartDelay /\ \A k \in 1 .. Len(tasks) : tasks[k] = k - 1)

\* C16 (amended): with a zero interval the candidates are started in index
\* order with no timed delay between successive starts (each start is still
\* followed by a sleep(0) that yields to the event loop); with the interval
\* left to its default, successive starts are 0.001 s apart.
C16_Amended ==
    /\ \A k \in 1 .. Len(tasks) : tasks[k] = k - 1
    /\ interval = 0 => NoStartDelay
    /\ (interval = DefaultInterval /\ Len(tasks) >= 1) =>
          slept = DefaultInterval * (Len(tasks) - 1)

C16_Witness ==
    /\ interval = 0
    /\ N = 3
    /\ Len(tasks) = 3
    /\ NoStartDelay
    /\ status[0] = "succeeded"
    /\ pc = "wait"

\* C17: no candidate is started after the race has concluded: tasks are
\* created only by the launch loop, which the race has left for good when it
\* concludes, with no candidate left to start.
C17_NoStartAfterConclusion ==
    /\ [](Concluded => \A i \in Indices : status[i] # "unstarted")
    /\ [][tasks' # tasks => (pc \in {"start", "sleep"} /\ ~Concluded')]_vars

C17_Witness ==
    /\ pc = "raised"
    /\ exc = CancelledError
    /\ N = 3
    /\ Len(tasks) = 3

\* Candidate i never completes and never reacts to cancellation.
Unstoppable(i) == factories[i] = "hang" /\ ~cooperative[i]

\* C18: while a started candidate that never completes and never reacts to
\* cancellation is running, the race does not conclude, even with a winner
\* adopted.
C18_HungCandidateHangsRace ==
    (\E i \in Indices : Unstoppable(i) /\ status[i] = "running") =>
        ~Concluded

C18_Witness ==
    /\ adopted # {}
    /\ pc = "gather_pending"
    /\ \E i \in Indices :
          /\ Unstoppable(i)
          /\ status[i] = "running"
          /\ cancel_calls[i] = 1
          /\ ~must_cancel[i]

\* C29: every candidate is started at most once and every start is one task
\* appended to tasks before the race suspends again (so a failed candidate
\* is never started a second time); a race that concludes has started each
\* candidate exactly once.
C29_StartedExactlyOnce ==
    /\ \A j, k \in 1 .. Len(tasks) : tasks[j] = tasks[k] => j = k
    /\ \A i \in Indices : status[i] # "unstarted" <=> i \in TaskSet
    /\ TaskSet \subseteq Indices
    /\ (Concluded /\ ~NotFactoryList) =>
          /\ Len(tasks) = N
          /\ TaskSet = Indices

C29_Witness ==
    /\ pc = "sleep"
    /\ N = 3
    /\ tasks = <<0, 1>>
    /\ status[0] = "failed"
    /\ status[1] = "running"
    /\ status[2] = "unstarted"

\* C30: a task that is done stays as it is: no step changes the status of a
\* succeeded, failed or cancelled candidate, and no cancel() of the winner
\* phase or of the finally block leaves a cancellation to deliver to it.
C30_TerminalStatusFinal ==
    /\ [](\A i \in Indices : IsDone(i) => ~must_cancel[i])
    /\ [][\A i \in Indices : IsDone(i) => status'[i] = status[i]]_vars

C30_Witness ==
    /\ pc = "gather_tasks"
    /\ adopted # {}
    /\ \E i, j, k \in Indices :
          /\ status[i] = "succeeded" /\ i \in adopted
          /\ status[j] = "failed"
          /\ status[k] = "cancelled" /\ cancel_calls[k] = 1

\* C31: the race calls cancel() at most once on a candidate's task: the
\* losers cancelled by the winner phase are done when the finally block
\* runs, which therefore cancels none of them again; only started candidates
\* that were not adopted are ever cancelled.
C31_AtMostOneCancelRequest ==
    \A i \in Indices :
        /\ cancel_calls[i] <= 1
        /\ cancel_calls[i] = 1 => (i \in TaskSet /\ i \notin adopted)

C31_Witness ==
    /\ pc = "returned"
    /\ \E i \in Indices :
          /\ cancel_calls[i] = 1
          /\ status[i] = "succeeded"
          /\ i \notin adopted
    /\ \E k \in Indices : cancel_calls[k] = 1 /\ status[k] = "cancelled"

\* C32: a candidate whose task ended cancelled without the race having
\* called cancel() on it is passed over like a failed one: its
\* CancelledError is never in flight in the race nor raised to the caller.
C32_SelfCancelledIsNonWinner ==
    (\E i \in Indices : status[i] = "cancelled" /\ cancel_calls[i] = 0) =>
        exc # CancelledError

\* C33: nothing of completion detection happens while a candidate is still
\* to be started (no wait, no candidate looked at, adopted or cancelled, a
\* success of the launch phase included), and a race that returns a value or
\* raises the all-failed error has started every candidate.
C33_DetectionAfterLastStart ==
    /\ Len(tasks) < N =>
          /\ pc \in {"start", "sleep"}
          /\ adopted = {}
          /\ failures = {}
          /\ done = {}
          /\ pending = {}
          /\ result = NoResult
          /\ exc = NoExc
          /\ \A i \in Indices : cancel_calls[i] = 0
    /\ (pc = "returned" \/ (pc = "raised" /\ exc = RuntimeError)) =>
          /\ Len(tasks) = N
          /\ launchedAtFirstSuccess <= N

C33_Witness ==
    /\ pc = "returned"
    /\ N = 3
    /\ firstSuccess = {1}
    /\ launchedAtFirstSuccess = 2
    /\ result = Value(1)
    /\ status[2] = "cancelled"

\* The event loop under fair scheduling: a race coroutine that can be
\* resumed (its sleep is over, asyncio.wait or gather has something to
\* return) is eventually resumed.  Nothing is assumed of the candidates.
FairSpec ==
    /\ Spec
    /\ WF_vars(CallEmpty)
    /\ WF_vars(Call)
    /\ WF_vars(LaunchNext)
    /\ WF_vars(WaitWake)
    /\ WF_vars(GatherPending)
    /\ WF_vars(GatherTasks)

\* No started candidate is still running.
NoneRunning == \A i \in Indices : status[i] # "running"

\* C34: under fair scheduling, if every started candidate eventually
\* succeeds, fails or ends cancelled (from some moment on none is running),
\* the race eventually concludes: it returns or raises.
C34_RaceConcludes == <>[]NoneRunning => <>Concluded

C34_Witness ==
    /\ pc = "returned"
    /\ N = 3
    /\ \E i, j, k \in Indices :
          /\ status[i] = "succeeded" /\ result = Value(i)
          /\ status[j] = "failed"
          /\ status[k] = "cancelled" /\ factories[k] = "hang"

(* ---------------------------------------------------------------------- *)
(* The race call cancelled from outside                                    *)
(* ---------------------------------------------------------------------- *)

\* The caller cancels the task running the race while the race is suspended:
\* CancelledError is raised at the await the race is in.  At the stagger
\* sleep, which is outside the try block, it leaves the race at once.  At
\* asyncio.wait it leaves the try block through the finally block.  A gather
\* passes the cancellation on to its children that are not done and raises
\* CancelledError only when all of them are done.
ExternalCancel ==
    /\ Suspended
    /\ ~race_cancelled
    /\ race_cancelled' = TRUE
    /\ CASE pc = "sleep" ->
              /\ exc' = CancelledError
              /\ pc' = "raised"
              /\ UNCHANGED <<must_cancel, cancel_calls>>
         [] pc = "wait" -> Finally(CancelledError, tasks)
         [] pc = "gather_pending" ->
              /\ must_cancel' = CancelAll(must_cancel, pending)
              /\ UNCHANGED <<pc, exc, cancel_calls>>
         [] pc = "gather_tasks" ->
              /\ must_cancel' = CancelAll(must_cancel, TaskSet)
              /\ UNCHANGED <<pc, exc, cancel_calls>>
    /\ UNCHANGED <<lockVars, semVars, demoVars, slept>>
    /\ UNCHANGED <<factories, cooperative, interval, tasks, status, pending,
                   done, result, adopted, failures, firstSuccess,
                   launchedAtFirstSuccess>>

\* The cancelled gather of the winner phase is over: CancelledError is
\* raised at line 200 and enters the finally block.
GatherPendingCancelled ==
    /\ pc = "gather_pending"
    /\ race_cancelled
    /\ AllDone(pending)
    /\ Finally(CancelledError, tasks)
    /\ UNCHANGED <<notRace, slept>>
    /\ UNCHANGED <<factories, cooperative, interval, tasks, status, pending,
                   done, result, adopted, failures, firstSuccess,
                   launchedAtFirstSuccess>>

\* The gather of the finally block is over in a cancelled race: the race
\* ends by CancelledError, thrown by the gather itself or already in flight.
GatherTasksCancelled ==
    /\ pc = "gather_tasks"
    /\ race_cancelled
    /\ AllDone(TaskSet)
    /\ exc' = CancelledError
    /\ pc' = "raised"
    /\ UNCHANGED <<notRace, slept>>
    /\ UNCHANGED <<factories, cooperative, interval, tasks, status,
                   must_cancel, cancel_calls, pending, done, result,
                   adopted, failures, firstSuccess, launchedAtFirstSuccess>>

CancelNext ==
    \/ CallEmpty
    \/ Call
    \/ LaunchNext
    \/ WaitWake
    \/ ~race_cancelled /\ GatherPending
    \/ ~race_cancelled /\ GatherTasks
    \/ ExternalCancel
    \/ GatherPendingCancelled
    \/ GatherTasksCancelled
    \/ TaskStep

CancelSpec == Init /\ [][CancelNext]_vars

\* C35: when a race cancelled from outside has ended, no candidate it
\* started is left running: each was cancelled and awaited first.
C35_NoCandidateLeftRunning ==
    (race_cancelled /\ Concluded) =>
        \A i \in TaskSet : IsDone(i) /\ ~must_cancel[i]

\* The same for a race cancelled at asyncio.wait or at one of its gathers:
\* there the finally block cancels and awaits what is left.
CancelledInsideTry ==
    (race_cancelled /\ Concluded /\ Len(tasks) = N) =>
        /\ exc = CancelledError
        /\ \A i \in TaskSet : IsDone(i) /\ ~must_cancel[i]

(* ---------------------------------------------------------------------- *)
(* SharedResource under asyncio.Lock                                       *)
(* (008_locks.py and 006_asyncio_lock.py)                                  *)
(* ---------------------------------------------------------------------- *)

\* Largest value of increments tried (main uses 100).
MaxIncrements == 3

\* The two workers main creates.
LockWorkers == {1, 2}

\* 006_asyncio_lock.py reads value, sleeps, then writes; 008_locks.py
\* sleeps, then reads and writes.
Variants == {"read_sleep_write", "sleep_read_write"}

\* A lock that is never waited for.
MustWaitNever(lk, wt) == FALSE

\* Lock.acquire() has to wait: the lock is held, or other workers already
\* wait for it (first come, first served).
MustWait(lk, wt) == lk \/ wt # <<>>

\* Lock.release() ends the wait of the first waiter, if there is one.
WakeUpFirst(wk, wt) == IF wt = <<>> THEN wk ELSE wk \cup {Head(wt)}

\* The sequence q without its occurrences of x.
Without(q, x) == SelectSeq(q, LAMBDA y : y # x)

\* Worker w calls resource.increment() and runs up to its first await: it
\* takes the lock and goes to sleep (having read value first, in the
\* read_sleep_write variant), or queues for the lock.  lk, wt and val are
\* the lock's state and resource.value at the call.
EnterIncrement(w, lk, wt, val) ==
    IF MustWait(lk, wt)
    THEN /\ locked' = lk
         /\ waiters' = Append(wt, w)
         /\ wpc' = [wpc EXCEPT ![w] = "acquiring"]
         /\ temp' = temp
    ELSE /\ locked' = TRUE
         /\ waiters' = wt
         /\ wpc' = [wpc EXCEPT ![w] = "sleeping"]
         /\ temp' = IF variant = "read_sleep_write"
                    THEN [temp EXCEPT ![w] = val]
                    ELSE temp

\* main has created the resource and the two workers.
LockInit ==
    /\ variant \in Variants
    /\ increments \in 0 .. MaxIncrements
    /\ value = 0
    /\ locked = FALSE
    /\ waiters = <<>>
    /\ woken = {}
    /\ wpc = [w \in LockWorkers |-> "created"]
    /\ left = [w \in LockWorkers |-> increments]
    /\ temp = [w \in LockWorkers |-> 0]
    /\ lmain = "waiting"
    /\ printed = <<>>

\* Worker w runs for the first time: the first pass of its loop.
WorkerStart(w) ==
    /\ wpc[w] = "created"
    /\ IF left[w] = 0
       THEN /\ wpc' = [wpc EXCEPT ![w] = "finished"]
            /\ UNCHANGED <<locked, waiters, temp>>
       ELSE EnterIncrement(w, locked, waiters, value)
    /\ UNCHANGED <<variant, increments, value, woken, left, lmain, printed>>
    /\ UNCHANGED notLock

\* Worker w, whose wait a release() has ended, gets the lock and goes to
\* sleep inside `async with self.lock`.
WorkerAcquired(w) ==
    /\ wpc[w] = "acquiring"
    /\ w \in woken
    /\ woken' = woken \ {w}
    /\ waiters' = Without(waiters, w)
    /\ locked' = TRUE
    /\ wpc' = [wpc EXCEPT ![w] = "sleeping"]
    /\ temp' = IF variant = "read_sleep_write"
               THEN [temp EXCEPT ![w] = value]
               ELSE temp
    /\ UNCHANGED <<variant, increments, value, left, lmain, printed>>
    /\ UNCHANGED notLock

\* The sleep of worker w is over: it writes value, releases the lock, and
\* starts the next pass of its loop, if any, up to the next await.
WorkerAfterSleep(w) ==
    /\ wpc[w] = "sleeping"
    /\ LET written == IF variant = "read_sleep_write"
                      THEN temp[w] + 1
                      ELSE value + 1
       IN /\ value' = written
          /\ woken' = WakeUpFirst(woken, waiters)
          /\ left' = [left EXCEPT ![w] = @ - 1]
          /\ IF left[w] = 1
             THEN /\ wpc' = [wpc EXCEPT ![w] = "finished"]
                  /\ locked' = FALSE
                  /\ UNCHANGED <<waiters, temp>>
             ELSE EnterIncrement(w, FALSE, waiters, written)
    /\ UNCHANGED <<variant, increments, lmain, printed>>
    /\ UNCHANGED notLock

\* Both workers are done: main prints resource.value.
LockMainPrint ==
    /\ lmain = "waiting"
    /\ \A w \in LockWorkers : wpc[w] = "finished"
    /\ printed' = <<value>>
    /\ lmain' = "done"
    /\ UNCHANGED <<variant, increments, value, locked, waiters, woken, wpc,
                   left, temp>>
    /\ UNCHANGED notLock

LockSpecInit == RaceIdle /\ LockInit /\ SemIdle /\ DemoIdle

LockNext ==
    \/ \E w \in LockWorkers : WorkerStart(w)
    \/ \E w \in LockWorkers : WorkerAcquired(w)
    \/ \E w \in LockWorkers : WorkerAfterSleep(w)
    \/ LockMainPrint

LockSpec == LockSpecInit /\ [][LockNext]_vars

\* C19: with two workers doing `increments` lock-protected increments each,
\* no increment is lost: value always counts the increments completed, and
\* main prints 2 * increments.
C19_NoLostIncrement ==
    lmain # "idle" =>
        /\ value = (increments - left[1]) + (increments - left[2])
        /\ lmain = "done" =>
              (printed = <<2 * increments>> /\ value = 2 * increments)

C19_Witness ==
    /\ lmain = "done"
    /\ variant = "read_sleep_write"
    /\ increments = 2
    /\ printed = <<4>>

(* ---------------------------------------------------------------------- *)
(* limited_worker under asyncio.Semaphore                                  *)
(* (009_semaphores.py, 007_asyncio_semaphore.py,                           *)
(* 018_asyncio_semaphore_concurrent_access.py)                             *)
(* ---------------------------------------------------------------------- *)

\* `range(3)`: the number of limited_worker tasks main creates.
NumSemWorkers == 3

\* `asyncio.Semaphore(2)`
SemLimit == 2

SemWorkers == 0 .. (NumSemWorkers - 1)

\* A semaphore that never makes a worker wait.
SemLockedNever(v, wt) == FALSE

\* Semaphore.locked(): no permit left, or workers already waiting.
SemLocked(v, wt) == v = 0 \/ wt # <<>>

\* The waiting workers, in order, whose wait has not been ended yet.
Unwoken(wt, wk) == SelectSeq(wt, LAMBDA y : y \notin wk)

\* Semaphore._wake_up_next(): the first waiter not woken yet is given a
\* permit.  st is [v, wk]: the counter and the woken waiters.
WakeUpNext(st, wt) ==
    IF Unwoken(wt, st.wk) = <<>> THEN st
    ELSE [v |-> st.v - 1, wk |-> st.wk \cup {Head(Unwoken(wt, st.wk))}]

\* `while self._value > 0: if not self._wake_up_next(): break`
RECURSIVE WakeWhilePermits(_, _)
WakeWhilePermits(st, wt) ==
    IF st.v > 0 /\ Unwoken(wt, st.wk) # <<>>
    THEN WakeWhilePermits(WakeUpNext(st, wt), wt)
    ELSE st

\* main has created the semaphore and the workers.
SemInit ==
    /\ sem_value = SemLimit
    /\ sem_waiters = <<>>
    /\ sem_woken = {}
    /\ spc = [w \in SemWorkers |-> "created"]
    /\ output = <<>>

\* Worker w runs for the first time: it enters `async with semaphore`, or
\* queues for a permit.
SemEnter(w) ==
    /\ spc[w] = "created"
    /\ IF SemLocked(sem_value, sem_waiters)
       THEN /\ sem_waiters' = Append(sem_waiters, w)
            /\ spc' = [spc EXCEPT ![w] = "waiting"]
            /\ UNCHANGED <<sem_value, output>>
       ELSE /\ sem_value' = sem_value - 1
            /\ spc' = [spc EXCEPT ![w] = "working"]
            /\ output' = Append(output, <<w, "working">>)
            /\ UNCHANGED sem_waiters
    /\ UNCHANGED sem_woken
    /\ UNCHANGED notSem

\* Worker w, whose wait a release() has ended, leaves acquire() and starts
\* working.
SemAcquired(w) ==
    /\ spc[w] = "waiting"
    /\ w \in sem_woken
    /\ LET wt == Without(sem_waiters, w)
           st == WakeWhilePermits([v |-> sem_value, wk |-> sem_woken \ {w}],
                                  wt)
       IN /\ sem_waiters' = wt
          /\ sem_value' = st.v
          /\ sem_woken' = st.wk
    /\ spc' = [spc EXCEPT ![w] = "working"]
    /\ output' = Append(output, <<w, "working">>)
    /\ UNCHANGED notSem

\* The sleep of worker w is over: it prints its last line and releases its
\* permit.
SemExit(w) ==
    /\ spc[w] = "working"
    /\ output' = Append(output, <<w, "done">>)
    /\ LET st == WakeUpNext([v |-> sem_value + 1, wk |-> sem_woken],
                            sem_waiters)
       IN /\ sem_value' = st.v
          /\ sem_woken' = st.wk
    /\ spc' = [spc EXCEPT ![w] = "finished"]
    /\ UNCHANGED sem_waiters
    /\ UNCHANGED notSem

SemSpecInit == RaceIdle /\ LockIdle /\ SemInit /\ DemoIdle

SemNext ==
    \/ \E w \in SemWorkers : SemEnter(w)
    \/ \E w \in SemWorkers : SemAcquired(w)
    \/ \E w \in SemWorkers : SemExit(w)

SemSpec == SemSpecInit /\ [][SemNext]_vars

\* The number of lines "Worker .. is <what>." printed so far.
Lines(what) ==
    Cardinality({k \in 1 .. Len(output) : output[k][2] = what})

\* C20: with Semaphore(2) and three limited_worker tasks, never more than
\* two workers have printed "is working" without having printed "is done".
C20_AtMostTwoWorking ==
    /\ Lines("working") - Lines("done") <= SemLimit
    /\ Cardinality({w \in DOMAIN spc : spc[w] = "working"}) <= SemLimit

C20_Witness ==
    /\ Lines("working") = 3
    /\ Lines("done") = 1
    /\ Cardinality({w \in SemWorkers : spc[w] = "working"}) = 2

(* ---------------------------------------------------------------------- *)
(* The event loop and the programs asyncio.run() is given                  *)
(* ---------------------------------------------------------------------- *)
(* One loop, one thread: the callback at the head of ready runs to its     *)
(* next suspension, and what it makes runnable (a created task, a waiter   *)
(* it wakes, its own resumption after sleep(0)) goes to the tail, as       *)
(* call_soon does.  A timer fires whenever the clock says so: the wake-up  *)
(* of a task in sleep(d), d > 0, reaches the tail of ready at any time.    *)
(* ---------------------------------------------------------------------- *)

\* The task asyncio.run() makes of main().
Main == <<"main", 0>>

\* The entry of ready that runs the next step of task t.
Step(t) == <<t, "step">>

\* The entry of ready that runs the done callbacks of task t.
DoneCb(t) == <<t, "done">>

\* entry is the callback the loop runs now.
Runs(entry) == ready # <<>> /\ Head(ready) = entry

\* The steps of the tasks of the sequence ts, in creation order.
Steps(ts) == [k \in 1 .. Len(ts) |-> Step(ts[k])]

\* lpc with the tasks of the set S at position at.
SetPc(S, at) == [t \in DOMAIN lpc \cup S |-> IF t \in S THEN at ELSE lpc[t]]

\* The timer of a task in asyncio.sleep(d), d > 0, fires: the task is ready.
TimerFire(t) ==
    /\ t \in sleeping
    /\ sleeping' = sleeping \ {t}
    /\ ready' = Append(ready, Step(t))
    /\ UNCHANGED <<demo, lpc, joining, to_cancel, lines, objectVars, notDemo>>

\* ready once the step of task t that ends its coroutine is over: the done
\* callback of a child gather() or a TaskGroup waits for is scheduled.
Finished(t, rd) == IF t \in joining THEN Append(rd, DoneCb(t)) ELSE rd

\* task.done()
TaskDone(t) == lpc[t] \in {"done", "failed", "cancelled"}

\* gather(*ts): the done callback is added to every child, and is scheduled
\* at once for a child that is done already.
GatherReady(ts, rd) ==
    rd \o [k \in 1 .. Len(SelectSeq(ts, TaskDone)) |->
              DoneCb(SelectSeq(ts, TaskDone)[k])]

\* gather's future is done when the done callback has run for every child.
Gathered(togo) == togo = {}

\* The done callback gather() added to child t: when it has run for every
\* child, gather's future is done and the parent's resumption is scheduled.
\* (TaskGroup._on_task_done does the same for a child that returned.)
GatherChildDone(t) ==
    /\ Runs(DoneCb(t))
    /\ t \in joining
    /\ joining' = joining \ {t}
    /\ ready' = IF Gathered(joining') THEN Append(Tail(ready), Step(Main))
                ELSE Tail(ready)
    /\ UNCHANGED <<demo, sleeping, lpc, to_cancel, lines, objectVars, notDemo>>

(* ---------------------------------------------------------------------- *)
(* Three workers at a Barrier(3)                                           *)
(* (012_barriers.py and 011_asyncio_barrier.py)                            *)
(* ---------------------------------------------------------------------- *)

\* main under a TaskGroup (012) and main with gather (011).
BarrierDemos == {"barrier_taskgroup", "barrier_gather"}

\* asyncio.Barrier(3)
Parties == 3

\* range(3)
NumBarrierWorkers == 3

Worker(i) == <<"worker", i>>

\* The workers in the order main creates them.
BarrierWorkerSeq == [k \in 1 .. NumBarrierWorkers |-> Worker(k - 1)]

BarrierWorkers == {BarrierWorkerSeq[k] : k \in 1 .. NumBarrierWorkers}

\* A barrier that lets every arrival through.
LastPartyAlways(index) == TRUE

\* `if index + 1 == self._parties` of Barrier.wait: this arrival fills the
\* barrier.
LastParty(index) == index + 1 = Parties

\* Barrier._exit: the last worker to leave a draining barrier refills it.
BarrierExit(count, state) ==
    IF count = 0 /\ state = "draining" THEN "filling" ELSE state

\* main up to its first suspension: the barrier and the three tasks are
\* created, then main waits for them (TaskGroup.__aexit__, or gather).
BarrierMain ==
    /\ demo \in BarrierDemos
    /\ Runs(Step(Main))
    /\ lpc[Main] = "start"
    /\ ready' = Tail(ready) \o Steps(BarrierWorkerSeq)
    /\ lpc' = [SetPc(BarrierWorkers, "start") EXCEPT ![Main] = "join"]
    /\ joining' = BarrierWorkers
    /\ UNCHANGED <<demo, sleeping, to_cancel, lines, barrierVars, notBarrier>>

\* worker up to its first suspension: it prints that it waits and calls
\* barrier.wait().  The arrival that fills the barrier drains it, wakes the
\* waiters and goes through without suspending; any other arrival blocks.
WorkerArrive(w) ==
    /\ demo \in BarrierDemos
    /\ Runs(Step(w))
    /\ lpc[w] = "start"
    /\ IF LastParty(b_count)
       THEN /\ b_count' = b_count
            /\ b_state' = BarrierExit(b_count, "draining")
            /\ b_waiters' = <<>>
            /\ lines' = lines \o <<<<"waiting", w[2]>>, <<"passed", w[2]>>>>
            /\ lpc' = [lpc EXCEPT ![w] = "done"]
            /\ ready' = Finished(w, Tail(ready) \o Steps(b_waiters))
       ELSE /\ b_count' = b_count + 1
            /\ b_state' = b_state
            /\ b_waiters' = Append(b_waiters, w)
            /\ lines' = Append(lines, <<"waiting", w[2]>>)
            /\ lpc' = [lpc EXCEPT ![w] = "waiting"]
            /\ ready' = Tail(ready)
    /\ UNCHANGED <<demo, sleeping, joining, to_cancel, notBarrier>>

\* A worker woken by the draining barrier leaves wait() and prints that it
\* passed.
WorkerPass(w) ==
    /\ demo \in BarrierDemos
    /\ Runs(Step(w))
    /\ lpc[w] = "waiting"
    /\ b_state # "filling"
    /\ b_count' = b_count - 1
    /\ b_state' = BarrierExit(b_count - 1, b_state)
    /\ lines' = Append(lines, <<"passed", w[2]>>)
    /\ lpc' = [lpc EXCEPT ![w] = "done"]
    /\ ready' = Finished(w, Tail(ready))
    /\ UNCHANGED <<demo, sleeping, joining, to_cancel, b_waiters, notBarrier>>

\* main resumes when every worker is done, and prints.
BarrierMainPrint ==
    /\ demo \in BarrierDemos
    /\ Runs(Step(Main))
    /\ lpc[Main] = "join"
    /\ lines' = Append(lines, <<"all reached">>)
    /\ lpc' = [lpc EXCEPT ![Main] = "done"]
    /\ ready' = Tail(ready)
    /\ UNCHANGED <<demo, sleeping, joining, to_cancel, barrierVars, notBarrier>>

BarrierNext ==
    \/ BarrierMain
    \/ \E w \in BarrierWorkers :
          \/ WorkerArrive(w)
          \/ WorkerPass(w)
    \/ BarrierMainPrint

\* The positions at which the line l is printed.
Printed(l) == {k \in 1 .. Len(lines) : lines[k] = l}

\* l is printed, and before position k.
PrintedBefore(l, k) == \E j \in Printed(l) : j < k

\* C21: no worker prints that it passed before all three workers printed
\* that they wait, and main's line comes only after all three passed.
C21_BarrierPhases ==
    demo \in BarrierDemos =>
        /\ \A w \in BarrierWorkers : \A k \in Printed(<<"passed", w[2]>>) :
              \A v \in BarrierWorkers : PrintedBefore(<<"waiting", v[2]>>, k)
        /\ \A k \in Printed(<<"all reached">>) :
              \A v \in BarrierWorkers : PrintedBefore(<<"passed", v[2]>>, k)

C21_Witness ==
    /\ demo \in BarrierDemos
    /\ Len(lines) = 2 * NumBarrierWorkers + 1
    /\ lines[2 * NumBarrierWorkers + 1] = <<"all reached">>
    /\ lpc[Main] = "done"

(* ---------------------------------------------------------------------- *)
(* Producers and consumers on an asyncio.Queue                             *)
(* (008_queue.py and 008_asyncio_queue.py)                                 *)
(* ---------------------------------------------------------------------- *)

\* Two producers and two consumers with a None per consumer to stop them
\* (008_queue.py), and one producer and one consumer of n items
\* (008_asyncio_queue.py).
QueueDemos == {"queue_mpmc", "queue_spsc"}

\* producer_count = 2; one producer_task in 008_asyncio_queue.py.
ProducerCount == IF demo = "queue_mpmc" THEN 2 ELSE 1

\* consumer_count = 2; one consumer_task in 008_asyncio_queue.py.
ConsumerCount == IF demo = "queue_mpmc" THEN 2 ELSE 1

\* items_per_producer = 2; n = 3 in 008_asyncio_queue.py.
ItemsPerProducer == IF demo = "queue_mpmc" THEN 2 ELSE 3

Producer(i) == <<"producer", i>>

Consumer(i) == <<"consumer", i>>

ProducerSeq == [k \in 1 .. ProducerCount |-> Producer(k - 1)]

ConsumerSeq == [k \in 1 .. ConsumerCount |-> Consumer(k - 1)]

Producers == {ProducerSeq[k] : k \in 1 .. ProducerCount}

Consumers == {ConsumerSeq[k] : k \in 1 .. ConsumerCount}

\* The sentinel None.
None == <<>>

\* `item = (producer_id, i)`, and the item i of 008_asyncio_queue.py.
Item(p, i) == IF demo = "queue_mpmc" THEN <<p[2], i>> ELSE <<i>>

\* print(f"Produced {item}")
ProducedLine(item) == <<"Produced", item>>

\* print(f"Consumed by {consumer_id}: {item}") and print(f"Consumed {item}")
ConsumedLine(c, item) ==
    IF demo = "queue_mpmc" THEN <<"Consumed by", c[2], item>>
    ELSE <<"Consumed", item>>

\* A queue that hands out the newest item first.
EnqueueFirst(items, x) == <<x>> \o items

\* Queue._put: the item joins the tail of the deque.
Enqueue(items, x) == Append(items, x)

\* A get that leaves the item in the queue.
AfterTakeKept(items) == items

\* Queue._get: popleft.
AfterTake(items) == Tail(items)

\* Queue._wakeup_next(self._getters): the first blocked consumer is made
\* ready.
WakeNext(getters, rd) ==
    IF getters = <<>> THEN rd ELSE Append(rd, Step(Head(getters)))

\* Queue.task_done reaching zero sets the event main waits for in join().
WakeJoin(unf, rd) ==
    IF unf = 0 /\ lpc[Main] = "join" THEN Append(rd, Step(Main)) ELSE rd

\* main up to its first suspension: the queue and the tasks are created and
\* main waits in gather (for the producers in 008_queue.py, for both tasks
\* in 008_asyncio_queue.py).
QueueMainStart ==
    /\ demo \in QueueDemos
    /\ Runs(Step(Main))
    /\ lpc[Main] = "start"
    /\ ready' = Tail(ready) \o Steps(ProducerSeq \o ConsumerSeq)
    /\ lpc' = [SetPc(Producers \cup Consumers, "start")
                  EXCEPT ![Main] = "gather"]
    /\ joining' = IF demo = "queue_mpmc" THEN Producers
                  ELSE Producers \cup Consumers
    /\ p_i' = [p \in Producers |-> 0]
    /\ c_item' = [c \in Consumers |-> None]
    /\ c_count' = [c \in Consumers |-> 0]
    /\ UNCHANGED <<demo, sleeping, to_cancel, lines, q_items, q_getters,
                   q_unfinished, notQueue>>

\* producer up to its first suspension: the sleep of the first pass.
ProducerStart(p) ==
    /\ demo \in QueueDemos
    /\ Runs(Step(p))
    /\ lpc[p] = "start"
    /\ sleeping' = sleeping \cup {p}
    /\ lpc' = [lpc EXCEPT ![p] = "sleep"]
    /\ ready' = Tail(ready)
    /\ UNCHANGED <<demo, joining, to_cancel, lines, queueVars, notQueue>>

\* producer after its sleep: it puts the item (put() of an unbounded queue
\* does not suspend), prints, and sleeps again or returns.
ProducerPut(p) ==
    /\ demo \in QueueDemos
    /\ Runs(Step(p))
    /\ lpc[p] = "sleep"
    /\ q_items' = Enqueue(q_items, Item(p, p_i[p]))
    /\ q_unfinished' = q_unfinished + 1
    /\ q_getters' = IF q_getters = <<>> THEN q_getters ELSE Tail(q_getters)
    /\ lines' = Append(lines, ProducedLine(Item(p, p_i[p])))
    /\ p_i' = [p_i EXCEPT ![p] = p_i[p] + 1]
    /\ IF p_i[p] + 1 < ItemsPerProducer
       THEN /\ sleeping' = sleeping \cup {p}
            /\ ready' = WakeNext(q_getters, Tail(ready))
            /\ UNCHANGED lpc
       ELSE /\ lpc' = [lpc EXCEPT ![p] = "done"]
            /\ ready' = Finished(p, WakeNext(q_getters, Tail(ready)))
            /\ UNCHANGED sleeping
    /\ UNCHANGED <<demo, joining, to_cancel, c_item, c_count, notQueue>>

\* `item = await queue.get()` with unf tasks unfinished and rd the rest of
\* ready: the consumer blocks on an empty queue; otherwise it takes the
\* oldest item without suspending and either stops on None (008_queue.py)
\* or sleeps before it prints.
Get(c, unf, rd) ==
    IF q_items = <<>>
    THEN /\ q_getters' = Append(q_getters, c)
         /\ q_unfinished' = unf
         /\ lpc' = [lpc EXCEPT ![c] = "get"]
         /\ ready' = rd
         /\ UNCHANGED <<q_items, c_item, sleeping>>
    ELSE /\ q_items' = AfterTake(q_items)
         /\ c_item' = [c_item EXCEPT ![c] = Head(q_items)]
         /\ UNCHANGED q_getters
         /\ IF demo = "queue_mpmc" /\ Head(q_items) = None
            THEN /\ q_unfinished' = unf - 1
                 /\ lpc' = [lpc EXCEPT ![c] = "done"]
                 /\ ready' = Finished(c, WakeJoin(unf - 1, rd))
                 /\ UNCHANGED sleeping
            ELSE /\ q_unfinished' = unf
                 /\ lpc' = [lpc EXCEPT ![c] = "sleep"]
                 /\ sleeping' = sleeping \cup {c}
                 /\ ready' = rd

\* CancelledError is thrown into consumer c where it is suspended: the task
\* ends cancelled.
ConsumerCancelled(c) ==
    /\ lpc' = [lpc EXCEPT ![c] = "cancelled"]
    /\ to_cancel' = to_cancel \ {c}
    /\ ready' = Finished(c, Tail(ready))
    /\ UNCHANGED <<q_items, q_getters, q_unfinished, c_item, sleeping>>

\* consumer at queue.get(): its first step, or its step after a put woke it
\* (it looks at the queue again: another consumer may have emptied it).
ConsumerGet(c) ==
    /\ demo \in QueueDemos
    /\ Runs(Step(c))
    /\ lpc[c] \in {"start", "get"}
    /\ IF c \in to_cancel
       THEN ConsumerCancelled(c)
       ELSE /\ Get(c, q_unfinished, Tail(ready))
            /\ UNCHANGED to_cancel
    /\ UNCHANGED <<demo, joining, lines, p_i, c_count, notQueue>>

\* consumer after its sleep: it prints the item, calls task_done() and goes
\* on to the next get(), or returns after n items (008_asyncio_queue.py).
ConsumerConsumed(c) ==
    /\ demo \in QueueDemos
    /\ Runs(Step(c))
    /\ lpc[c] = "sleep"
    /\ IF c \in to_cancel
       THEN /\ ConsumerCancelled(c)
            /\ UNCHANGED <<lines, c_count>>
       ELSE /\ lines' = Append(lines, ConsumedLine(c, c_item[c]))
            /\ UNCHANGED to_cancel
            /\ IF demo = "queue_spsc"
               THEN /\ c_count' = [c_count EXCEPT ![c] = c_count[c] + 1]
                    /\ IF c_count[c] + 1 = ItemsPerProducer
                       THEN /\ q_unfinished' = q_unfinished - 1
                            /\ lpc' = [lpc EXCEPT ![c] = "done"]
                            /\ ready' =
                                  Finished(c, WakeJoin(q_unfinished - 1,
                                                       Tail(ready)))
                            /\ UNCHANGED <<q_items, q_getters, c_item,
                                           sleeping>>
                       ELSE Get(c, q_unfinished - 1,
                                WakeJoin(q_unfinished - 1, Tail(ready)))
               ELSE /\ UNCHANGED c_count
                    /\ Get(c, q_unfinished - 1,
                           WakeJoin(q_unfinished - 1, Tail(ready)))
    /\ UNCHANGED <<demo, joining, p_i, notQueue>>

\* The items after put(x) for every x of the sequence xs.
RECURSIVE PutAll(_, _)
PutAll(items, xs) ==
    IF xs = <<>> THEN items ELSE PutAll(Enqueue(items, Head(xs)), Tail(xs))

\* The first k elements of the sequence q, or all of it.
Take(q, k) == SubSeq(q, 1, IF k < Len(q) THEN k ELSE Len(q))

\* main of 008_queue.py once the producers are done: one None per consumer
\* is put (each put wakes the next blocked consumer), then main blocks in
\* queue.join(), the sentinels being unfinished.
QueueMainSentinels ==
    /\ demo = "queue_mpmc"
    /\ Runs(Step(Main))
    /\ lpc[Main] = "gather"
    /\ q_items' = PutAll(q_items, [k \in 1 .. ConsumerCount |-> None])
    /\ q_unfinished' = q_unfinished + ConsumerCount
    /\ q_getters' = SubSeq(q_getters, Len(Take(q_getters, ConsumerCount)) + 1,
                           Len(q_getters))
    /\ ready' = Tail(ready) \o Steps(Take(q_getters, ConsumerCount))
    /\ lpc' = [lpc EXCEPT ![Main] = "join"]
    /\ UNCHANGED <<demo, sleeping, joining, to_cancel, lines, p_i, c_item,
                   c_count, notQueue>>

\* main of 008_queue.py once join() returns: every consumer that is not done
\* is cancelled, then main waits in gather(*consumers).
QueueMainAfterJoin ==
    /\ demo = "queue_mpmc"
    /\ Runs(Step(Main))
    /\ lpc[Main] = "join"
    /\ to_cancel' = to_cancel \cup {c \in Consumers : ~TaskDone(c)}
    /\ sleeping' = sleeping \ Consumers
    /\ q_getters' = <<>>
    /\ joining' = Consumers
    /\ ready' = GatherReady(ConsumerSeq,
                    Tail(ready) \o
                    Steps(SelectSeq(ConsumerSeq,
                                    LAMBDA c : ~TaskDone(c)
                                               /\ Step(c) \notin
                                                  {ready[k] :
                                                   k \in 1 .. Len(ready)})))
    /\ lpc' = [lpc EXCEPT ![Main] = "gather_consumers"]
    /\ UNCHANGED <<demo, lines, q_items, q_unfinished, p_i, c_item, c_count,
                   notQueue>>

\* main returns: after gather(*consumers) in 008_queue.py; after gather and
\* queue.join() in 008_asyncio_queue.py, where join() suspends only while
\* tasks are unfinished.
QueueMainReturn ==
    /\ demo \in QueueDemos
    /\ Runs(Step(Main))
    /\ \/ demo = "queue_mpmc" /\ lpc[Main] = "gather_consumers"
       \/ demo = "queue_spsc" /\ lpc[Main] \in {"gather", "join"}
    /\ lpc' = [lpc EXCEPT ![Main] =
                  IF lpc[Main] = "gather" /\ q_unfinished > 0 THEN "join"
                  ELSE "done"]
    /\ ready' = Tail(ready)
    /\ UNCHANGED <<demo, sleeping, joining, to_cancel, lines, queueVars,
                   notQueue>>

QueueNext ==
    \/ QueueMainStart
    \/ \E p \in Producers :
          \/ ProducerStart(p)
          \/ ProducerPut(p)
    \/ \E c \in Consumers :
          \/ ConsumerGet(c)
          \/ ConsumerConsumed(c)
    \/ QueueMainSentinels
    \/ QueueMainAfterJoin
    \/ QueueMainReturn

\* The items of the lines of kind what, in the order printed.
RECURSIVE ItemsOf(_, _)
ItemsOf(what, ls) ==
    IF ls = <<>> THEN <<>>
    ELSE IF Head(ls)[1] = what
         THEN <<Head(ls)[Len(Head(ls))]>> \o ItemsOf(what, Tail(ls))
         ELSE ItemsOf(what, Tail(ls))

\* Every item the producers of 008_queue.py put.
AllItems == {<<p, i>> : p \in 0 .. 1, i \in 0 .. 1}

\* The lines that say item was consumed, whoever consumed it.
ConsumedBy(item) ==
    {k \in 1 .. Len(lines) :
        lines[k][1] = "Consumed by" /\ lines[k][Len(lines[k])] = item}

\* C22: in 008_queue.py an item is consumed only once it was produced, and
\* at most once whoever the consumer; when main returns every item of every
\* producer was produced and consumed exactly once, and no consumer had to
\* be cancelled.
C22_EachItemConsumedOnce ==
    demo = "queue_mpmc" =>
        /\ \A item \in AllItems :
              /\ Cardinality(ConsumedBy(item)) <= 1
              /\ \A k \in ConsumedBy(item) :
                    PrintedBefore(ProducedLine(item), k)
        /\ \A k \in 1 .. Len(lines) :
              lines[k][Len(lines[k])] \in AllItems
        /\ lpc[Main] = "done" =>
              /\ \A item \in AllItems :
                    /\ Cardinality(Printed(ProducedLine(item))) = 1
                    /\ Cardinality(ConsumedBy(item)) = 1
              /\ q_items = <<>>
              /\ \A c \in Consumers : lpc[c] = "done"

C22_Witness ==
    /\ demo = "queue_mpmc"
    /\ lpc[Main] = "done"
    /\ Len(lines) = 8
    /\ Cardinality({lines[k][2] : k \in ConsumedBy(<<0, 0>>)
                                      \cup ConsumedBy(<<0, 1>>)
                                      \cup ConsumedBy(<<1, 0>>)
                                      \cup ConsumedBy(<<1, 1>>)}) = 2

\* C23: in 008_asyncio_queue.py "Consumed i" is never printed before
\* "Produced i", and the items are consumed in the order they were
\* produced.
C23_ConsumedAfterProducedInOrder ==
    demo = "queue_spsc" =>
        /\ \A k \in 1 .. Len(lines) :
              lines[k][1] = "Consumed" =>
                  PrintedBefore(ProducedLine(lines[k][2]), k)
        /\ ItemsOf("Consumed", lines) =
              Take(ItemsOf("Produced", lines),
                   Len(ItemsOf("Consumed", lines)))
        /\ ItemsOf("Produced", lines) =
              [k \in 1 .. Len(ItemsOf("Produced", lines)) |-> <<k - 1>>]

C23_Witness ==
    /\ demo = "queue_spsc"
    /\ lpc[Main] = "done"
    /\ lines = <<<<"Produced", <<0>>>>, <<"Produced", <<1>>>>,
                 <<"Consumed", <<0>>>>, <<"Produced", <<2>>>>,
                 <<"Consumed", <<1>>>>, <<"Consumed", <<2>>>>>>

(* ---------------------------------------------------------------------- *)
(* A worker beside a heartbeat, and the canary of BlockingDetector         *)
(* (006_blocking_calls.py)                                                 *)
(* ---------------------------------------------------------------------- *)

\* Largest number of heartbeat ticks followed while the thread of
\* offloaded_worker is at work.
MaxTicks == 4

\* Largest number of awaits of sleep(0) in the body of `async with
\* BlockingDetector()`.
MaxYields == 3

\* run_scenario(cooperative_worker), run_scenario(blocking_worker) and
\* run_scenario(offloaded_worker).
ScenarioDemos ==
    {"scenario_cooperative", "scenario_blocking", "scenario_offloaded"}

\* The heartbeat task of run_scenario.
Hb == <<"heartbeat", 0>>

\* The canary task of BlockingDetector.
Canary == <<"canary", 0>>

\* An await of sleep(0) that resumes at once, ahead of the callbacks that
\* are ready.
YieldFirst(rd, t) == <<Step(t)>> \o rd

\* `await asyncio.sleep(0)` in task t, rd being the rest of ready: the
\* resumption of t goes behind what is ready already.
Yield(rd, t) == Append(rd, Step(t))

\* time.sleep() giving the loop a turn as asyncio.sleep(0) does.
WorkerYieldsAlways(d) == d \in {"scenario_cooperative", "scenario_blocking"}

\* The worker suspends between setting and clearing worker_running with an
\* await of sleep(0): cooperative_worker does, blocking_worker calls
\* time.sleep().
WorkerYields(d) == d = "scenario_cooperative"

\* The pending cancel() of a task not yet started left undelivered.
ThrownAtStartNever(t) == FALSE

\* Task.__step of a task with a cancel() pending throws CancelledError into
\* the coroutine: at its first step, before any of its code has run.
ThrownAtStart(t) == t \in to_cancel

\* run_scenario up to its first suspension: the heartbeat task is created,
\* then the worker runs inside main's task.  cooperative_worker suspends in
\* sleep(0), offloaded_worker until the thread is done; blocking_worker does
\* not suspend, and main goes on to set stop and await the heartbeat.
ScenarioMainStart ==
    /\ demo \in ScenarioDemos
    /\ Runs(Step(Main))
    /\ lpc[Main] = "start"
    /\ IF WorkerYields(demo)
       THEN /\ worker_running' = TRUE
            /\ ready' = Yield(Append(Tail(ready), Step(Hb)), Main)
            /\ lpc' = [SetPc({Hb}, "start") EXCEPT ![Main] = "worker"]
            /\ UNCHANGED <<stop, thread_running>>
       ELSE IF demo = "scenario_offloaded"
       THEN /\ worker_running' = TRUE
            /\ thread_running' = TRUE
            /\ ready' = Append(Tail(ready), Step(Hb))
            /\ lpc' = [SetPc({Hb}, "start") EXCEPT ![Main] = "worker"]
            /\ UNCHANGED stop
       ELSE /\ worker_running' = FALSE
            /\ stop' = TRUE
            /\ ready' = Append(Tail(ready), Step(Hb))
            /\ lpc' = [SetPc({Hb}, "start") EXCEPT ![Main] = "await_hb"]
            /\ UNCHANGED thread_running
    /\ UNCHANGED <<demo, sleeping, joining, to_cancel, lines, ticks_total,
                   ticks_while_worker_running, canary_ran, body_yields,
                   yields_left, notBlocking>>

\* _blocking_work returns in its thread: the future main awaits is done and
\* main's resumption is scheduled.
ThreadDone ==
    /\ demo = "scenario_offloaded"
    /\ thread_running
    /\ thread_running' = FALSE
    /\ ready' = Append(ready, Step(Main))
    /\ UNCHANGED <<demo, sleeping, lpc, joining, to_cancel, lines,
                   worker_running, stop, ticks_total,
                   ticks_while_worker_running, canary_ran, body_yields,
                   yields_left, notBlocking>>

\* The worker resumes and clears worker_running; run_scenario sets stop and
\* awaits the heartbeat task.
ScenarioMainResume ==
    /\ demo \in ScenarioDemos
    /\ Runs(Step(Main))
    /\ lpc[Main] = "worker"
    /\ worker_running' = FALSE
    /\ stop' = TRUE
    /\ lpc' = [lpc EXCEPT ![Main] = "await_hb"]
    /\ ready' = Tail(ready)
    /\ UNCHANGED <<demo, sleeping, joining, to_cancel, lines, ticks_total,
                   ticks_while_worker_running, thread_running, canary_ran,
                   body_yields, yields_left, notBlocking>>

\* One pass of heartbeat's loop up to sleep(0), or its return once stop is
\* set, which resumes run_scenario.
HeartbeatStep ==
    /\ demo \in ScenarioDemos
    /\ Runs(Step(Hb))
    /\ lpc[Hb] \in {"start", "tick"}
    /\ IF stop
       THEN /\ lpc' = [lpc EXCEPT ![Hb] = "done"]
            /\ ready' = IF lpc[Main] = "await_hb"
                        THEN Append(Tail(ready), Step(Main))
                        ELSE Tail(ready)
            /\ UNCHANGED <<ticks_total, ticks_while_worker_running>>
       ELSE /\ thread_running => ticks_total < MaxTicks
            /\ ticks_while_worker_running' =
                  IF worker_running THEN ticks_while_worker_running + 1
                  ELSE ticks_while_worker_running
            /\ ticks_total' = ticks_total + 1
            /\ lpc' = [lpc EXCEPT ![Hb] = "tick"]
            /\ ready' = Yield(Tail(ready), Hb)
    /\ UNCHANGED <<demo, sleeping, joining, to_cancel, lines, worker_running,
                   stop, thread_running, canary_ran, body_yields,
                   yields_left, notBlocking>>

\* `await hb_task` is over: run_scenario returns stats.
ScenarioMainReturn ==
    /\ demo \in ScenarioDemos
    /\ Runs(Step(Main))
    /\ lpc[Main] = "await_hb"
    /\ lpc' = [lpc EXCEPT ![Main] = "done"]
    /\ ready' = Tail(ready)
    /\ UNCHANGED <<demo, sleeping, joining, to_cancel, lines, blockingVars,
                   notBlocking>>

\* The body of `async with BlockingDetector()` from where main is, rd being
\* the rest of ready: the next await of sleep(0) if one is left; otherwise
\* __aexit__, which cancels the canary unless it is done and awaits it (an
\* await of a done task does not suspend).
DetectorBody(rd) ==
    IF yields_left > 0
    THEN /\ yields_left' = yields_left - 1
         /\ ready' = Yield(rd, Main)
         /\ UNCHANGED <<lpc, to_cancel>>
    ELSE /\ yields_left' = yields_left
         /\ ready' = rd
         /\ IF Canary \in DOMAIN lpc /\ TaskDone(Canary)
            THEN /\ lpc' = [lpc EXCEPT ![Main] = "done"]
                 /\ UNCHANGED to_cancel
            ELSE /\ lpc' = [SetPc({Canary}, "start") EXCEPT ![Main] = "aexit"]
                 /\ to_cancel' = to_cancel \cup {Canary}

\* main up to its first suspension: __aenter__ creates the canary task
\* without suspending, and the body begins.
DetectorMainStart ==
    /\ demo = "detector"
    /\ Runs(Step(Main))
    /\ lpc[Main] = "start"
    /\ IF yields_left > 0
       THEN /\ yields_left' = yields_left - 1
            /\ ready' = Yield(Append(Tail(ready), Step(Canary)), Main)
            /\ lpc' = [SetPc({Canary}, "start") EXCEPT ![Main] = "body"]
            /\ UNCHANGED to_cancel
       ELSE DetectorBody(Append(Tail(ready), Step(Canary)))
    /\ UNCHANGED <<demo, sleeping, joining, lines, worker_running, stop,
                   ticks_total, ticks_while_worker_running, thread_running,
                   canary_ran, body_yields, notBlocking>>

\* main resumes in the body after a sleep(0).
DetectorMainBody ==
    /\ demo = "detector"
    /\ Runs(Step(Main))
    /\ lpc[Main] = "body"
    /\ DetectorBody(Tail(ready))
    /\ UNCHANGED <<demo, sleeping, joining, lines, worker_running, stop,
                   ticks_total, ticks_while_worker_running, thread_running,
                   canary_ran, body_yields, notBlocking>>

\* The first step of the canary task: _canary sets the flag, unless the
\* task was cancelled before it started.  Either way the task is done, and
\* main resumes if it awaits it.
CanaryStep ==
    /\ demo = "detector"
    /\ Runs(Step(Canary))
    /\ lpc[Canary] = "start"
    /\ IF ThrownAtStart(Canary)
       THEN /\ lpc' = [lpc EXCEPT ![Canary] = "cancelled"]
            /\ UNCHANGED canary_ran
       ELSE /\ lpc' = [lpc EXCEPT ![Canary] = "done"]
            /\ canary_ran' = TRUE
    /\ to_cancel' = to_cancel \ {Canary}
    /\ ready' = IF lpc[Main] = "aexit" THEN Append(Tail(ready), Step(Main))
                ELSE Tail(ready)
    /\ UNCHANGED <<demo, sleeping, joining, lines, worker_running, stop,
                   ticks_total, ticks_while_worker_running, thread_running,
                   body_yields, yields_left, notBlocking>>

\* `await self._task` of __aexit__ is over, the CancelledError suppressed.
DetectorMainReturn ==
    /\ demo = "detector"
    /\ Runs(Step(Main))
    /\ lpc[Main] = "aexit"
    /\ lpc' = [lpc EXCEPT ![Main] = "done"]
    /\ ready' = Tail(ready)
    /\ UNCHANGED <<demo, sleeping, joining, to_cancel, lines, blockingVars,
                   notBlocking>>

BlockingNext ==
    \/ ScenarioMainStart
    \/ ThreadDone
    \/ ScenarioMainResume
    \/ HeartbeatStep
    \/ ScenarioMainReturn
    \/ DetectorMainStart
    \/ DetectorMainBody
    \/ CanaryStep
    \/ DetectorMainReturn

\* C24: with cooperative_worker the heartbeat ticks exactly once while
\* worker_running is True: never more than once, once by the time the
\* worker clears the flag, and the statistics returned say one.
C24_CooperativeOneTick ==
    demo = "scenario_cooperative" =>
        /\ ticks_while_worker_running <= 1
        /\ (lpc[Main] \in {"await_hb", "done"}) =>
              ticks_while_worker_running = 1
        /\ lpc[Main] = "done" => ticks_total = 1

C24_Witness ==
    /\ demo = "scenario_cooperative"
    /\ lpc[Main] = "done"
    /\ lpc[Hb] = "done"
    /\ ticks_while_worker_running = 1

\* C25: with blocking_worker the heartbeat never runs while worker_running
\* is True, and no tick is counted for it.
C25_BlockingNoTick ==
    demo = "scenario_blocking" =>
        /\ ticks_while_worker_running = 0
        /\ ~worker_running
        /\ Hb \in DOMAIN lpc => stop

C25_Witness ==
    /\ demo = "scenario_blocking"
    /\ lpc[Main] = "done"
    /\ lpc[Hb] = "done"
    /\ ticks_total = 0

\* C26: canary_ran is True only if the body has suspended at least once,
\* and after the `async with` block it is True exactly if the body did.
C26_CanaryIffYielded ==
    demo = "detector" =>
        /\ canary_ran => body_yields - yields_left >= 1
        /\ lpc[Main] = "done" => (canary_ran <=> body_yields >= 1)

C26_Witness ==
    /\ demo = "detector"
    /\ lpc[Main] = "done"
    /\ body_yields = 0
    /\ lpc[Canary] = "cancelled"
    /\ ~canary_ran

(* ---------------------------------------------------------------------- *)
(* Children of an asyncio.TaskGroup (006_task_groups.py)                   *)
(* ---------------------------------------------------------------------- *)

\* demonstrate_failure_handling and demonstrate_successful_group.
GroupDemos == {"taskgroup_failure", "taskgroup_success"}

\* The children in the order they are created: faulty() and slow(), or
\* fetch_data("alpha", ...) and fetch_data("beta", ...).
GroupChildSeq ==
    IF demo = "taskgroup_failure" THEN <<<<"faulty", 0>>, <<"slow", 0>>>>
    ELSE <<<<"fetch_data", 0>>, <<"fetch_data", 1>>>>

GroupChildren == {GroupChildSeq[k] : k \in 1 .. Len(GroupChildSeq)}

\* RuntimeError("boom"), which faulty raises.
Boom == [type |-> "RuntimeError", args |-> <<"boom">>]

\* BaseExceptionGroup("unhandled errors in a TaskGroup", errors)
ExceptionGroup(errors) == [type |-> "ExceptionGroup", args |-> errors]

\* The cancellation of a child counted among the group's errors.
ReportedEvenCancelled(t) == lpc[t] \in {"failed", "cancelled"}

\* _on_task_done: a cancelled child and a child that returned add nothing
\* to the errors; a child that raised adds its exception.
Reported(t) == lpc[t] = "failed"

\* The tasks of S that TaskGroup._abort cancels: those not done.
Aborted(S) == {t \in S : ~TaskDone(t)}

\* The async with body up to the suspension of __aexit__: both children are
\* created, each with _on_task_done as done callback, and the parent waits
\* for _on_completed_fut.
GroupMainStart ==
    /\ demo \in GroupDemos
    /\ Runs(Step(Main))
    /\ lpc[Main] = "start"
    /\ ready' = Tail(ready) \o Steps(GroupChildSeq)
    /\ lpc' = [SetPc(GroupChildren, "start") EXCEPT ![Main] = "aexit"]
    /\ tg_tasks' = GroupChildren
    /\ tg_fut' = "pending"
    /\ UNCHANGED <<demo, sleeping, joining, to_cancel, lines, tg_errors,
                   tg_aborting, tg_parent_cancel_requested, tg_exc,
                   notGroup>>

\* A child up to its asyncio.sleep.
GroupChildStart(t) ==
    /\ demo \in GroupDemos
    /\ Runs(Step(t))
    /\ lpc[t] = "start"
    /\ IF t \in to_cancel
       THEN /\ lpc' = [lpc EXCEPT ![t] = "cancelled"]
            /\ to_cancel' = to_cancel \ {t}
            /\ ready' = Append(Tail(ready), DoneCb(t))
            /\ UNCHANGED sleeping
       ELSE /\ lpc' = [lpc EXCEPT ![t] = "sleep"]
            /\ sleeping' = sleeping \cup {t}
            /\ ready' = Tail(ready)
            /\ UNCHANGED to_cancel
    /\ UNCHANGED <<demo, joining, lines, groupVars, notGroup>>

\* A child resumes from its sleep: with CancelledError if the group
\* cancelled it, otherwise faulty raises and any other child returns.  The
\* task is done and its done callback is scheduled.
GroupChildResume(t) ==
    /\ demo \in GroupDemos
    /\ Runs(Step(t))
    /\ lpc[t] = "sleep"
    /\ lpc' = [lpc EXCEPT ![t] =
                  IF t \in to_cancel THEN "cancelled"
                  ELSE IF t[1] = "faulty" THEN "failed" ELSE "done"]
    /\ to_cancel' = to_cancel \ {t}
    /\ ready' = Append(Tail(ready), DoneCb(t))
    /\ UNCHANGED <<demo, sleeping, joining, lines, groupVars, notGroup>>

\* TaskGroup._on_task_done(t): the child leaves _tasks and the waiting
\* parent is woken if none is left; the exception of a child that raised
\* is recorded and, the first time, the group aborts: every child not done
\* is cancelled (a sleeping child is rescheduled to take the CancelledError)
\* and so is the parent, whose pending wait is cancelled.
GroupOnTaskDone(t) ==
    /\ demo \in GroupDemos
    /\ Runs(DoneCb(t))
    /\ tg_tasks' = tg_tasks \ {t}
    /\ LET wakes == tg_fut = "pending" /\ tg_tasks' = {}
           aborts == /\ Reported(t)
                     /\ ~tg_aborting
                     /\ ~tg_parent_cancel_requested
           victims == IF aborts THEN Aborted(tg_tasks') ELSE {}
           cancels == aborts /\ ~wakes /\ tg_fut = "pending"
       IN /\ tg_errors' = IF Reported(t) THEN Append(tg_errors, Boom)
                          ELSE tg_errors
          /\ tg_aborting' = (tg_aborting \/ aborts)
          /\ tg_parent_cancel_requested' =
                (tg_parent_cancel_requested \/ aborts)
          /\ tg_fut' = IF wakes THEN "set"
                       ELSE IF cancels THEN "cancelled" ELSE tg_fut
          /\ to_cancel' = to_cancel \cup victims
                             \cup (IF aborts THEN {Main} ELSE {})
          /\ sleeping' = sleeping \ victims
          /\ ready' =
                (Tail(ready)
                 \o Steps(SelectSeq(GroupChildSeq,
                                    LAMBDA v : v \in victims
                                               /\ v \in sleeping)))
                \o (IF wakes \/ cancels THEN <<Step(Main)>> ELSE <<>>)
    /\ UNCHANGED <<demo, lpc, joining, lines, tg_exc, notGroup>>

\* The parent resumes in __aexit__, its wait over or cancelled (the group
\* is aborting, so the CancelledError is dropped): it waits again while
\* children are left, and otherwise leaves the block, raising the
\* ExceptionGroup if there are errors.
GroupMainResume ==
    /\ demo \in GroupDemos
    /\ Runs(Step(Main))
    /\ lpc[Main] = "aexit"
    /\ tg_fut \in {"set", "cancelled"}
    /\ to_cancel' = to_cancel \ {Main}
    /\ ready' = Tail(ready)
    /\ IF tg_tasks # {}
       THEN /\ tg_fut' = "pending"
            /\ UNCHANGED <<lpc, tg_exc>>
       ELSE /\ tg_fut' = "none"
            /\ tg_exc' = IF tg_errors # <<>> THEN ExceptionGroup(tg_errors)
                         ELSE NoExc
            /\ lpc' = [lpc EXCEPT ![Main] =
                          IF tg_errors # <<>> THEN "raised" ELSE "done"]
    /\ UNCHANGED <<demo, sleeping, joining, lines, tg_tasks, tg_errors,
                   tg_aborting, tg_parent_cancel_requested, notGroup>>

GroupNext ==
    \/ GroupMainStart
    \/ \E t \in GroupChildren :
          \/ GroupChildStart(t)
          \/ GroupChildResume(t)
          \/ GroupOnTaskDone(t)
    \/ GroupMainResume

\* C27: when faulty raises while slow is still running, slow is cancelled;
\* the group exits by raising an ExceptionGroup whose only sub-exception is
\* faulty's error, whether slow ended cancelled or had returned.
C27_OneSubException ==
    demo = "taskgroup_failure" =>
        /\ Len(tg_errors) <= 1
        /\ lpc[Main] # "done"
        /\ (tg_aborting /\ <<"slow", 0>> \in DOMAIN lpc) =>
              \/ TaskDone(<<"slow", 0>>)
              \/ <<"slow", 0>> \in to_cancel
        /\ lpc[Main] = "raised" =>
              /\ tg_exc = ExceptionGroup(<<Boom>>)
              /\ lpc[<<"slow", 0>>] \in {"cancelled", "done"}
              /\ lpc[<<"faulty", 0>>] = "failed"

C27_Witness ==
    /\ demo = "taskgroup_failure"
    /\ lpc[Main] = "raised"
    /\ lpc[<<"slow", 0>>] = "cancelled"
    /\ Len(tg_exc.args) = 1

(* ---------------------------------------------------------------------- *)
(* A waiter and a setter on an asyncio.Event                               *)
(* (010_event.py, 017_asyncio_event_signaling.py, 009_asyncio_event.py)    *)
(* ---------------------------------------------------------------------- *)

\* main of each of the three files: in 009 main itself sets the event.
EventDemos == {"event_010", "event_017", "event_009"}

Waiter == <<"waiter", 0>>

Setter == <<"setter", 0>>

\* The tasks main creates, in order: the waiter first in 010, the setter
\* first in 017, the waiter alone in 009.
EventTaskSeq ==
    IF demo = "event_010" THEN <<Waiter, Setter>>
    ELSE IF demo = "event_017" THEN <<Setter, Waiter>>
    ELSE <<Waiter>>

EventTasks == {EventTaskSeq[k] : k \in 1 .. Len(EventTaskSeq)}

\* An event.wait() that never blocks.
EventIsSetAlways(v) == TRUE

\* `if self._value: return True` of Event.wait.
EventIsSet(v) == v

\* main up to its first suspension: the tasks are created, then main waits
\* in gather, or sleeps before it sets the event itself (009).
EventMainStart ==
    /\ demo \in EventDemos
    /\ Runs(Step(Main))
    /\ lpc[Main] = "start"
    /\ ready' = Tail(ready) \o Steps(EventTaskSeq)
    /\ IF demo = "event_009"
       THEN /\ lpc' = [SetPc(EventTasks, "start") EXCEPT ![Main] = "sleep"]
            /\ sleeping' = sleeping \cup {Main}
            /\ UNCHANGED joining
       ELSE /\ lpc' = [SetPc(EventTasks, "start") EXCEPT ![Main] = "gather"]
            /\ joining' = EventTasks
            /\ UNCHANGED sleeping
    /\ UNCHANGED <<demo, to_cancel, lines, eventVars, notEvent>>

\* setter up to its sleep.
SetterStart ==
    /\ demo \in EventDemos
    /\ Runs(Step(Setter))
    /\ lpc[Setter] = "start"
    /\ lpc' = [lpc EXCEPT ![Setter] = "sleep"]
    /\ sleeping' = sleeping \cup {Setter}
    /\ ready' = Tail(ready)
    /\ UNCHANGED <<demo, joining, to_cancel, lines, eventVars, notEvent>>

\* setter after its sleep: it prints and sets the event (in the other order
\* in 017), which wakes the waiters, and returns.
SetterSet ==
    /\ demo \in EventDemos
    /\ Runs(Step(Setter))
    /\ lpc[Setter] = "sleep"
    /\ lines' = Append(lines, <<"setter", "set">>)
    /\ e_value' = TRUE
    /\ e_waiters' = <<>>
    /\ lpc' = [lpc EXCEPT ![Setter] = "done"]
    /\ ready' = Finished(Setter, Tail(ready) \o Steps(e_waiters))
    /\ UNCHANGED <<demo, sleeping, joining, to_cancel, notEvent>>

\* main of 009 after its sleep: it prints, sets the event and awaits the
\* waiter task.
EventMainSet ==
    /\ demo = "event_009"
    /\ Runs(Step(Main))
    /\ lpc[Main] = "sleep"
    /\ lines' = Append(lines, <<"main", "set">>)
    /\ e_value' = TRUE
    /\ e_waiters' = <<>>
    /\ lpc' = [lpc EXCEPT ![Main] =
                  IF TaskDone(Waiter) THEN "done" ELSE "await_waiter"]
    /\ ready' = Tail(ready) \o Steps(e_waiters)
    /\ UNCHANGED <<demo, sleeping, joining, to_cancel, notEvent>>

\* waiter up to event.wait(): it prints that it waits, and blocks unless
\* the event is set already.
WaiterStart ==
    /\ demo \in EventDemos
    /\ Runs(Step(Waiter))
    /\ lpc[Waiter] = "start"
    /\ IF EventIsSet(e_value)
       THEN /\ lines' = lines \o <<<<"waiter", "waiting">>,
                                   <<"waiter", "continuing">>>>
            /\ lpc' = [lpc EXCEPT ![Waiter] = "done"]
            /\ ready' = IF lpc[Main] = "await_waiter"
                        THEN Append(Tail(ready), Step(Main))
                        ELSE Finished(Waiter, Tail(ready))
            /\ UNCHANGED e_waiters
       ELSE /\ lines' = Append(lines, <<"waiter", "waiting">>)
            /\ lpc' = [lpc EXCEPT ![Waiter] = "waiting"]
            /\ e_waiters' = Append(e_waiters, Waiter)
            /\ ready' = Tail(ready)
    /\ UNCHANGED <<demo, sleeping, joining, to_cancel, e_value, notEvent>>

\* waiter woken by event.set(): it prints that it continues and returns.
WaiterResume ==
    /\ demo \in EventDemos
    /\ Runs(Step(Waiter))
    /\ lpc[Waiter] = "waiting"
    /\ lines' = Append(lines, <<"waiter", "continuing">>)
    /\ lpc' = [lpc EXCEPT ![Waiter] = "done"]
    /\ ready' = IF lpc[Main] = "await_waiter"
                THEN Append(Tail(ready), Step(Main))
                ELSE Finished(Waiter, Tail(ready))
    /\ UNCHANGED <<demo, sleeping, joining, to_cancel, eventVars, notEvent>>

\* main returns once gather, or the waiter task, is done.
EventMainReturn ==
    /\ demo \in EventDemos
    /\ Runs(Step(Main))
    /\ lpc[Main] \in {"gather", "await_waiter"}
    /\ lpc' = [lpc EXCEPT ![Main] = "done"]
    /\ ready' = Tail(ready)
    /\ UNCHANGED <<demo, sleeping, joining, to_cancel, lines, eventVars,
                   notEvent>>

EventNext ==
    \/ EventMainStart
    \/ SetterStart
    \/ SetterSet
    \/ EventMainSet
    \/ WaiterStart
    \/ WaiterResume
    \/ EventMainReturn

\* C28: the waiter's waiting line is the first line printed; the waiter
\* reaches event.wait() before the event is set, so it blocks; and its
\* continuation line comes only after the line of whoever sets the event,
\* with the event set.
C28_WaiterContinuesAfterSet ==
    demo \in EventDemos =>
        /\ lines # <<>> => lines[1] = <<"waiter", "waiting">>
        /\ (Waiter \in DOMAIN lpc /\ lpc[Waiter] = "start") => ~e_value
        /\ \A k \in Printed(<<"waiter", "continuing">>) :
              /\ e_value
              /\ PrintedBefore(<<"waiter", "waiting">>, k)
              /\ \/ PrintedBefore(<<"setter", "set">>, k)
                 \/ PrintedBefore(<<"main", "set">>, k)

C28_Witness ==
    /\ demo = "event_017"
    /\ lpc[Main] = "done"
    /\ lines = <<<<"waiter", "waiting">>, <<"setter", "set">>,
                 <<"waiter", "continuing">>>>

(* ---------------------------------------------------------------------- *)
(* The programs together                                                   *)
(* ---------------------------------------------------------------------- *)

\* The programs asyncio.run() is given.
Demos ==
    BarrierDemos \cup QueueDemos \cup ScenarioDemos \cup {"detector"}
        \cup GroupDemos \cup EventDemos

\* asyncio.run(main()) of one of the programs: the loop holds main's task,
\* about to take its first step.
DemoInit ==
    /\ demo \in Demos
    /\ ready = <<Step(Main)>>
    /\ sleeping = {}
    /\ lpc = [t \in {Main} |-> "start"]
    /\ joining = {}
    /\ to_cancel = {}
    /\ lines = <<>>
    /\ b_count = 0
    /\ b_state = "filling"
    /\ b_waiters = <<>>
    /\ q_items = <<>>
    /\ q_getters = <<>>
    /\ q_unfinished = 0
    /\ p_i = <<>>
    /\ c_item = <<>>
    /\ c_count = <<>>
    /\ worker_running = FALSE
    /\ stop = FALSE
    /\ ticks_total = 0
    /\ ticks_while_worker_running = 0
    /\ thread_running = FALSE
    /\ canary_ran = FALSE
    /\ body_yields \in (IF demo = "detector" THEN 0 .. MaxYields ELSE {0})
    /\ yields_left = body_yields
    /\ tg_tasks = {}
    /\ tg_errors = <<>>
    /\ tg_aborting = FALSE
    /\ tg_parent_cancel_requested = FALSE
    /\ tg_fut = "none"
    /\ tg_exc = NoExc
    /\ e_value = FALSE
    /\ e_waiters = <<>>

DemoSpecInit == RaceIdle /\ LockIdle /\ SemIdle /\ DemoInit

DemoNext ==
    \/ \E t \in sleeping : TimerFire(t)
    \/ \E t \in joining : GatherChildDone(t)
    \/ BarrierNext
    \/ QueueNext
    \/ BlockingNext
    \/ GroupNext
    \/ EventNext

DemoSpec == DemoSpecInit /\ [][DemoNext]_vars

====
